---------------------------- MODULE Spec2Model ----------------------------
(***************************************************************************)
(* A model of the dual-loop program of src/src/main.rs: the platform       *)
(* thread (main and its window procedure wndproc), the simulation thread   *)
(* ("game thread") and the render thread ("gpu thread"), the two           *)
(* mutex-guarded event queues and the mpsc channel between the loops.      *)
(*                                                                         *)
(* Time is counted in units of 500 microseconds.                           *)
(*                                                                         *)
(* The floating-point values written by GameState::update are represented  *)
(* by write stamps: camera.eye, camera.direction and the physics body each *)
(* hold the number of the tick whose update wrote them last.  A camera     *)
(* whose eye and direction stamps differ is one seen in the middle of an   *)
(* update.  The aspect ratio is kept as the pair <<width, height>>.        *)
(***************************************************************************)
EXTENDS Integers, Sequences, FiniteSets, TLC

\* ------------------------------------------------------------- bounds
\* Spec: the two loops and the channel, no window message arrives.
MaxSends == 4      \* snapshots the simulation thread sends in a run
MaxNow == 44       \* last clock value (500 us units)
ClockStep == 2     \* granularity of the clock's advance (500 us units)
\* SpecQueues: the window procedure and the two loops' queue drains.
QMaxMsgs == 2      \* window messages dispatched to wndproc in a run
QMaxSends == 1     \* snapshots the simulation thread sends in a run
QMaxNow == 20      \* last clock value (500 us units)
QClockStep == 20   \* granularity of the clock's advance (500 us units)

\* ------------------------------------------------- program constants
TIME_PER_GAME_TICK == 20          \* 1 / GAME_TICKS_PER_SECOND = 10 ms
MIN_TIME_PER_RENDER_FRAME == 20   \* 1 / MAX_RENDER_FPS = 10 ms
SLEEP_GUARD == 3                  \* Duration::from_micros(1500)
FPS_PRINT_PERIOD == 4000          \* Duration::from_secs(2)
WINDOW_INITIAL_WIDTH == 2560
WINDOW_INITIAL_HEIGHT == 1440
KF_REPEAT == 16384                \* 0x4000
VK_SPACE == 32
VK_LEFT == 37
VK_UP == 38
VK_RIGHT == 39
VK_DOWN == 40

\* SpecInput: the simulation thread and wndproc with keyboard, mouse and
\* resize messages.
IMaxMsgs == 2      \* window messages dispatched in a run
IMaxSends == 3     \* snapshots sent in a run
IMaxNow == 40      \* the clock stops here
IClockStep == 20   \* the clock advances by this much

\* SpecPlayer: calls on the player's body.
MaxCalls == 2      \* calls in a run

\* SpecRotor: calls on rotors with integer components.
MaxComponent == 2  \* largest absolute value of a component

\* SpecLook: ticks that turn the camera.
MaxLooks == 3      \* ticks in a run

\* SpecRender: the two loops with the results of render() on record.
RMaxSends == 1     \* snapshots sent in a run
RMaxNow == 50      \* the clock stops here
RClockStep == 5    \* the clock advances by this much

\* SpecEvents: the two drains fed with any value of WindowsEvent.
EMaxEvents == 2    \* events pushed in a run

\* SpecWait: the waits of the two loops at any remaining time.
MaxWait == 12      \* latest reading and latest due time (500 us units)

\* SpecGround: the ticks of a run, from GameState::new to the ground and on it.
FallTicks == 150   \* ticks without input, while the player falls
PlayTicks == 4     \* ticks with input that follow

\* SpecRoute: the messages wndproc is entered with, before and after the
\* handles are installed.
RMaxMsgs == 3
RouteTags == {"WM_DESTROY", "WM_MOUSEACTIVATE", "WM_CHAR"}

\* SpecHandoff: the two loops at the channel, running for ever.
HMaxChan == 3      \* snapshots in the channel at which the simulation thread pauses

\* SpecLocks: the three threads at the two mutexes, running for ever.
LMaxQueue == 1     \* events in a queue at which no further message arrives

\* SpecKeys: the simulation thread fed with key messages, running for ever.
KMaxQueue == 2     \* events queued or drained since the last tick at which no message arrives
KMaxSpins == 2     \* outer iterations without a tick between two ticks

\* ------------------------------------------------------------ state
VARIABLES
    main_pc,            \* position of the platform thread (main / wndproc)
    installed,          \* number of queue handles stored in the window memory
    wnd_msg,            \* the message wndproc is handling
    serial,             \* number of messages dispatched so far
    gpu_event_queue,    \* VecDeque of the render side
    input_event_queue,  \* VecDeque of the simulation side
    gpu_mutex,          \* holder of the render-side queue's mutex
    input_mutex,        \* holder of the simulation-side queue's mutex
    pushed,             \* history: events pushed, per queue
    popped,             \* history: events popped, per queue
    game_pc,            \* position of the simulation thread
    game_event,         \* the event the simulation thread popped
    input_state,        \* InputState
    game_rect,          \* RECT of the simulation thread
    game_state,         \* GameState: tick, camera, physics
    last_tick,
    current_time,
    game_wake,          \* end of the simulation thread's sleep
    updates,            \* history: completed calls of GameState::update
    iterations,         \* history: completed catch-up loops
    chan,               \* the mpsc channel's buffer
    sends,              \* history: number of sends
    sent_log,           \* history: tick counter of every snapshot sent
    published,          \* history: cameras of the snapshots sent
    gpu_pc,             \* position of the render thread
    gpu_event,          \* the event the render thread popped
    game_state_res,     \* the snapshot retained by the handoff drain
    sends_seen,         \* history: sends at the latest try_recv
    gpu_state,          \* backend: camera, surface size, background colour
    applied,            \* history: serial and tick of the snapshot applied last
    last_render,
    last_fps_print,
    frames,
    gpu_wake,           \* end of the render thread's sleep
    now,                \* the clock
    drain_log,          \* history: events drained since the last tick, each with the RECT in force
    seen,               \* history: what every call of GameState::update was given
    player,             \* Player at the level of values: physics body and camera
    call,               \* history: the latest call on the player, its arguments and result
    render_log          \* history: the clock reading and the result of every render()

platformVars == <<main_pc, installed, wnd_msg, serial>>
queueVars == <<gpu_event_queue, input_event_queue, gpu_mutex, input_mutex, pushed, popped>>
gameVars == <<game_pc, game_event, input_state, game_rect, game_state, last_tick,
              current_time, game_wake, updates, iterations>>
chanVars == <<chan, sends, sent_log, published>>
gpuVars == <<gpu_pc, gpu_event, game_state_res, sends_seen,
             gpu_state, applied, last_render, last_fps_print, frames, gpu_wake>>
inputHist == <<drain_log, seen>>
valueVars == <<player, call>>
vars == <<platformVars, queueVars, gameVars, chanVars, gpuVars, now, inputHist, valueVars,
          render_log>>

\* ------------------------------------------------------- data types
\* Rust's integer division truncates towards zero.
TruncDiv(a, b) ==
    IF a >= 0 THEN a \div b ELSE -((-a) \div b)

Abs(a) == IF a < 0 THEN -a ELSE a

\* RECT, as GetClientRect fills it: left = top = 0.
Rect(w, h) == [left |-> 0, top |-> 0, right |-> w, bottom |-> h]

InitialRect == Rect(WINDOW_INITIAL_WIDTH, WINDOW_INITIAL_HEIGHT)

\* enum EventData
ResizeData(rect) == [variant |-> "ResizeData", rect |-> rect]
EmptyData == [variant |-> "EmptyData"]
MouseMoveData(pt) == [variant |-> "MouseMoveData", pt |-> pt]
KeyDownData(wparam, lparam) == [variant |-> "KeyDownData", wparam |-> wparam, lparam |-> lparam]
KeyUpData(wparam, lparam) == [variant |-> "KeyUpData", wparam |-> wparam, lparam |-> lparam]

\* struct WindowsEvent; id is the serial of the message that produced it.
WindowsEvent(message, data, id) == [message |-> message, data |-> data, id |-> id]

\* The histories keep the events of numbered messages; the messages of a run
\* without end carry no number.
Remember(history, event) == IF event.id = 0 THEN history ELSE Append(history, event)

NoEvent == [message |-> "none", data |-> EmptyData, id |-> 0]

\* A window message as the platform hands it to wndproc: for WM_SIZE the
\* client rectangle and for WM_MOUSEMOVE the cursor position are what
\* GetClientRect and GetCursorPos return inside the handler.
Msg(message, wparam, lparam, rect, pt) ==
    [message |-> message, wparam |-> wparam, lparam |-> lparam, rect |-> rect, pt |-> pt]

NoMsg == Msg("none", 0, 0, InitialRect, [x |-> 0, y |-> 0])

\* The messages of the runs explored by SpecQueues.
QMessages ==
    { Msg("WM_PAINT", 0, 0, InitialRect, [x |-> 0, y |-> 0]),
      Msg("WM_SIZE", 0, 0, Rect(1920, 1080), [x |-> 0, y |-> 0]),
      Msg("WM_MOUSEMOVE", 0, 0, InitialRect, [x |-> 1290, y |-> 715]),
      Msg("WM_KEYDOWN", VK_UP, 1, InitialRect, [x |-> 0, y |-> 0]),
      Msg("WM_KEYUP", VK_UP, 1, InitialRect, [x |-> 0, y |-> 0]),
      Msg("WM_SETCURSOR", 0, 0, InitialRect, [x |-> 0, y |-> 0]) }

\* The messages of the runs explored by SpecLocks: the window keeps its size
\* and the cursor is outside the central box.
LockMessages ==
    { Msg("WM_PAINT", 0, 0, InitialRect, [x |-> 0, y |-> 0]),
      Msg("WM_SIZE", 0, 0, InitialRect, [x |-> 0, y |-> 0]),
      Msg("WM_MOUSEMOVE", 0, 0, InitialRect, [x |-> 0, y |-> 0]),
      Msg("WM_KEYDOWN", VK_UP, 1, InitialRect, [x |-> 0, y |-> 0]),
      Msg("WM_KEYUP", VK_UP, 1, InitialRect, [x |-> 0, y |-> 0]),
      Msg("WM_SETCURSOR", 0, 0, InitialRect, [x |-> 0, y |-> 0]) }

\* The events wndproc builds: every message with the EventData of its arm.
WellFormed ==
    { [message |-> "WM_KEYDOWN", data |-> KeyDownData(VK_UP, 1)],
      [message |-> "WM_KEYUP", data |-> KeyUpData(VK_UP, 1)],
      [message |-> "WM_MOUSEMOVE", data |-> MouseMoveData([x |-> 1290, y |-> 715])],
      [message |-> "WM_SIZE", data |-> ResizeData(Rect(1920, 1080))],
      [message |-> "WM_PAINT", data |-> EmptyData] }

\* EventData (lines 331-337) that some arm of a match acts upon.
Payloads ==
    { ResizeData(Rect(1920, 1080)),
      MouseMoveData([x |-> 1290, y |-> 715]),
      KeyDownData(VK_UP, 1) }

\* WindowsEvent (lines 325-328) pairs any message with any EventData: the
\* well-formed events, and every tag the two loops match on, and one that
\* neither matches, with every payload of Payloads.
AnyEvents ==
    WellFormed \cup
    { [message |-> msg, data |-> d] :
        msg \in {"WM_KEYDOWN", "WM_KEYUP", "WM_MOUSEMOVE", "WM_SIZE", "WM_PAINT", "WM_SETCURSOR"},
        d \in Payloads }

\* lParam of a WM_KEYDOWN: bits 0-15 hold the repeat count, bit 30 tells that
\* the key was down before the message (set on auto-repeat).
FirstPress == 1
AutoRepeat == 1073741824 + 1

\* The messages of the runs explored by SpecKeys: one key pressed and released.
KeyMessages ==
    { Msg("WM_KEYDOWN", VK_UP, FirstPress, InitialRect, [x |-> 0, y |-> 0]),
      Msg("WM_KEYUP", VK_UP, AutoRepeat, InitialRect, [x |-> 0, y |-> 0]) }

\* The messages of the runs explored by SpecInput: the keys left, up and
\* space pressed, repeated and released; the cursor 10 right of and 5 above
\* the centre of the initial window, in its corner, and near the centre of
\* the small window; a resize to the small window.
InputMessages ==
    { Msg("WM_KEYDOWN", VK_LEFT, FirstPress, InitialRect, [x |-> 0, y |-> 0]),
      Msg("WM_KEYDOWN", VK_LEFT, AutoRepeat, InitialRect, [x |-> 0, y |-> 0]),
      Msg("WM_KEYUP", VK_LEFT, AutoRepeat, InitialRect, [x |-> 0, y |-> 0]),
      Msg("WM_KEYDOWN", VK_UP, FirstPress, InitialRect, [x |-> 0, y |-> 0]),
      Msg("WM_KEYUP", VK_UP, AutoRepeat, InitialRect, [x |-> 0, y |-> 0]),
      Msg("WM_KEYDOWN", VK_SPACE, FirstPress, InitialRect, [x |-> 0, y |-> 0]),
      Msg("WM_KEYDOWN", VK_SPACE, AutoRepeat, InitialRect, [x |-> 0, y |-> 0]),
      Msg("WM_KEYUP", VK_SPACE, AutoRepeat, InitialRect, [x |-> 0, y |-> 0]),
      Msg("WM_MOUSEMOVE", 0, 0, InitialRect, [x |-> 1290, y |-> 715]),
      Msg("WM_MOUSEMOVE", 0, 0, InitialRect, [x |-> 0, y |-> 0]),
      Msg("WM_MOUSEMOVE", 0, 0, InitialRect, [x |-> 25, y |-> 15]),
      Msg("WM_SIZE", 0, 0, Rect(40, 30), [x |-> 0, y |-> 0]) }

\* InputState::new
InputState_new ==
    [mouse_x |-> 0, mouse_y |-> 0, forward |-> FALSE, backward |-> FALSE,
     left |-> FALSE, right |-> FALSE, jump |-> FALSE]

\* Mutant of post_update_reset: every field is reset.
post_update_reset_all(is) ==
    [is EXCEPT !.mouse_x = 0, !.mouse_y = 0, !.jump = FALSE, !.forward = FALSE,
               !.backward = FALSE, !.left = FALSE, !.right = FALSE]

\* Mutant of post_update_reset: the mouse deltas are kept.
post_update_reset_keeps_mouse(is) == [is EXCEPT !.jump = FALSE]

\* Mutant of post_update_reset: nothing is reset.
post_update_reset_none(is) == is

\* InputState::post_update_reset
post_update_reset(is) ==
    [is EXCEPT !.mouse_x = 0, !.mouse_y = 0, !.jump = FALSE]

\* Camera::new, as GameState::new calls it.
Camera_new(aspect) == [eye |-> 0, direction |-> 0, aspect |-> aspect]

\* GameState::new
GameState_new(aspect) == [tick |-> 0, camera |-> Camera_new(aspect), physics |-> 0]

\* GameState::get_camera
get_camera(gs) == gs.camera

\* GameState::change_camera_aspect
change_camera_aspect(gs, aspect) == [gs EXCEPT !.camera.aspect = aspect]

InitialAspect == <<WINDOW_INITIAL_WIDTH, WINDOW_INITIAL_HEIGHT>>


\* ------------------------------------------------- queue and channel
\* Mutant of is_empty: a queue of one event passes for empty.
is_empty_at_most_one(q) == Len(q) <= 1

\* Mutant of is_empty: the test is inverted.
is_empty_inverted(q) == Len(q) > 0

\* VecDeque::is_empty
is_empty(q) == Len(q) = 0

\* VecDeque::push_back
push_back(q, e) == Append(q, e)

\* Mutant of pop_front_value: the element at the back is returned.
pop_back_value(q) == IF Len(q) = 0 THEN NoEvent ELSE q[Len(q)]

\* VecDeque::pop_front: the element removed (None on an empty queue)
pop_front_value(q) == IF Len(q) = 0 THEN NoEvent ELSE Head(q)

\* VecDeque::pop_front: the queue left behind
pop_front_rest(q) == IF Len(q) = 0 THEN q ELSE Tail(q)

\* Result<GameState, TryRecvError>
Ok(gs, n) == [ok |-> TRUE, value |-> gs, seq |-> n]

Err == [ok |-> FALSE, value |-> GameState_new(InitialAspect), seq |-> 0]

\* Sender::send: the channel is unbounded and keeps the order of the sends.
send(ch, m) == Append(ch, m)

\* Mutant of try_recv_rest: the snapshot received stays in the channel.
try_recv_rest_keeps(ch) == ch

\* Receiver::try_recv: the result
try_recv_value(ch) == IF Len(ch) = 0 THEN Err ELSE Head(ch)

\* Receiver::try_recv: the channel left behind
try_recv_rest(ch) == IF Len(ch) = 0 THEN ch ELSE Tail(ch)

\* ------------------------------------------- simulation-side events
\* (key_flags & KF_REPEAT) == KF_REPEAT, with key_flags = lparam.0 as u32:
\* the bit of weight 0x4000 of lparam.
was_key_already_down(lparam) ==
    ((lparam \div KF_REPEAT) % 2) = 1

\* Mutant of KeyDown: a key-down of a key that was down already is ignored,
\* whatever the key.
KeyDownOncePerPress(is, wparam, lparam) ==
    IF (lparam \div 1073741824) % 2 = 1 THEN is
    ELSE CASE wparam = VK_LEFT -> [is EXCEPT !.left = TRUE]
           [] wparam = VK_RIGHT -> [is EXCEPT !.right = TRUE]
           [] wparam = VK_UP -> [is EXCEPT !.forward = TRUE]
           [] wparam = VK_DOWN -> [is EXCEPT !.backward = TRUE]
           [] wparam = VK_SPACE -> [is EXCEPT !.jump = TRUE]
           [] OTHER -> is

\* The WM_KEYDOWN arm of the simulation thread's match.
KeyDown(is, wparam, lparam) ==
    CASE wparam = VK_LEFT ->
            IF ~was_key_already_down(lparam) THEN [is EXCEPT !.left = TRUE] ELSE is
      [] wparam = VK_RIGHT ->
            IF ~was_key_already_down(lparam) THEN [is EXCEPT !.right = TRUE] ELSE is
      [] wparam = VK_UP -> [is EXCEPT !.forward = TRUE]
      [] wparam = VK_DOWN -> [is EXCEPT !.backward = TRUE]
      [] wparam = VK_SPACE -> [is EXCEPT !.jump = TRUE]
      [] OTHER -> is

\* Mutant of KeyUp: the release of a key is ignored.
KeyUp_ignored(is, wparam) == is

\* The WM_KEYUP arm.
KeyUp(is, wparam) ==
    CASE wparam = VK_LEFT -> [is EXCEPT !.left = FALSE]
      [] wparam = VK_RIGHT -> [is EXCEPT !.right = FALSE]
      [] wparam = VK_UP -> [is EXCEPT !.forward = FALSE]
      [] wparam = VK_DOWN -> [is EXCEPT !.backward = FALSE]
      [] OTHER -> is

\* Mutant of MouseMove: the central box is not tested.
MouseMoveUnchecked(is, rect, pt) ==
    [is EXCEPT !.mouse_x = @ + (pt.x - TruncDiv(rect.right + rect.left, 2)),
               !.mouse_y = @ + (pt.y - TruncDiv(rect.bottom + rect.top, 2))]

\* The WM_MOUSEMOVE arm.
MouseMove(is, rect, pt) ==
    LET center_x == TruncDiv(rect.right + rect.left, 2)
        center_y == TruncDiv(rect.bottom + rect.top, 2)
        near_center_x == Abs(pt.x - center_x) < TruncDiv(rect.right - rect.left, 4)
        near_center_y == Abs(pt.y - center_y) < TruncDiv(rect.bottom - rect.top, 4)
    IN  IF near_center_x /\ near_center_y
        THEN [is EXCEPT !.mouse_x = @ + (pt.x - center_x),
                        !.mouse_y = @ + (pt.y - center_y)]
        ELSE is

\* What the simulation thread's match does to InputState.
GameEventInput(is, rect, ev) ==
    CASE ev.message = "WM_KEYDOWN" /\ ev.data.variant = "KeyDownData" ->
            KeyDown(is, ev.data.wparam, ev.data.lparam)
      [] ev.message = "WM_KEYUP" /\ ev.data.variant = "KeyUpData" ->
            KeyUp(is, ev.data.wparam)
      [] ev.message = "WM_MOUSEMOVE" /\ ev.data.variant = "MouseMoveData" ->
            MouseMove(is, rect, ev.data.pt)
      [] OTHER -> is

\* Mutant of GameEventRect: the payload is taken whatever the message.
GameEventRect_any_message(rect, ev) ==
    IF ev.data.variant = "ResizeData" THEN ev.data.rect ELSE rect

\* What it does to game_rect.
GameEventRect(rect, ev) ==
    IF ev.message = "WM_SIZE" /\ ev.data.variant = "ResizeData" THEN ev.data.rect ELSE rect

\* What it does to the GameState (the camera's aspect ratio).
GameEventState(gs, ev) ==
    IF ev.message = "WM_SIZE" /\ ev.data.variant = "ResizeData"
    THEN change_camera_aspect(gs, <<ev.data.rect.right - ev.data.rect.left,
                                    ev.data.rect.bottom - ev.data.rect.top>>)
    ELSE gs

\* ----------------------------------------------- render-side events
\* WebGPUState::resize
resize(gs, rect) ==
    LET w == rect.right - rect.left
        h == rect.bottom - rect.top
    IN  IF w > 0 /\ h > 0 THEN [gs EXCEPT !.width = w, !.height = h] ELSE gs

\* WebGPUState::update_bg_color: the colour is a function of the point.
update_bg_color(gs, pt) == [gs EXCEPT !.background_color = pt]

\* WebGPUState::update_camera
update_camera(gs, camera) == [gs EXCEPT !.camera = camera]

\* What the render thread's match does to the backend.
GpuEventState(gs, ev) ==
    CASE ev.message = "WM_MOUSEMOVE" /\ ev.data.variant = "MouseMoveData" ->
            update_bg_color(gs, ev.data.pt)
      [] ev.message = "WM_SIZE" /\ ev.data.variant = "ResizeData" ->
            resize(gs, ev.data.rect)
      [] OTHER -> gs

\* WebGPUState::new
WebGPUState_new(gs) ==
    [camera |-> get_camera(gs), width |-> WINDOW_INITIAL_WIDTH,
     height |-> WINDOW_INITIAL_HEIGHT, background_color |-> [x |-> 0, y |-> 0]]

\* ------------------------------------------------------------- waits
\* Instant - Instant saturates at zero.
SaturatingSub(a, b) == IF a >= b THEN a - b ELSE 0

\* Duration::as_millis of a duration in 500 us units
as_millis(d) == d \div 2

\* Duration::from_millis in 500 us units
from_millis(ms) == 2 * ms

\* Mutant of SleepRequest: the guard is left out.
SleepRequestUnguarded(r) == from_millis(as_millis(r) - 1)

\* The sleep requested for a remaining time r: none when r is within the guard.
SleepRequest(r) ==
    IF r > SLEEP_GUARD THEN from_millis(as_millis(r) - 1) ELSE -1

\* ------------------------------------------------- values of a tick
\* The f32 quantities of the player are kept in fixed point, in units chosen
\* so that the products of the source need no rescaling:
\*   delta_t    in units of 0.01 s,      acceleration in units of 0.1 /s^2,
\*   velocity   in units of 0.001 /s,    position     in units of 0.00001,
\*   directions and unit vectors in units of 1 / DIR_SCALE.
\* A division rounds to the nearest unit, as an f32 operation rounds to the
\* nearest representable value.
DIR_SCALE == 1000
\* The components of the rotors of a tick are in units of 1 / ROT_SCALE.
ROT_SCALE == 500

PLAYER_FORCE == 60
GRAVITY == -90
CAMERA_PHYSICS_OFFSET == 40000
CAMERA_EYE_Y == 500000
MAX_PLAYER_VEL == 10000
JUMP_IMPULSE == 5000
JUMP_THRESHOLD == -499900
GROUND_Y == -500000
POLAR_THRESHOLD == 1

\* Vector3<f32> / Point3<f32>
Vec(x, y, z) == [x |-> x, y |-> y, z |-> z]

VZero == Vec(0, 0, 0)

VAdd(a, b) == Vec(a.x + b.x, a.y + b.y, a.z + b.z)

VSub(a, b) == Vec(a.x - b.x, a.y - b.y, a.z - b.z)

VScale(k, a) == Vec(k * a.x, k * a.y, k * a.z)

\* a / b for b > 0, rounded to the nearest unit (halves away from zero)
RoundDiv(a, b) ==
    IF a >= 0 THEN (2 * a + b) \div (2 * b) ELSE -((2 * (-a) + b) \div (2 * b))

VRoundDiv(a, b) == Vec(RoundDiv(a.x, b), RoundDiv(a.y, b), RoundDiv(a.z, b))

\* Vector3::dot
Dot(a, b) == a.x * b.x + a.y * b.y + a.z * b.z

\* the square of Vector3::magnitude
MagnitudeSq(a) == Dot(a, a)

\* The largest r in lo..hi with r * r <= n, by bisection.
RECURSIVE SqrtBetween(_, _, _)
SqrtBetween(n, lo, hi) ==
    IF lo >= hi THEN lo
    ELSE LET mid == (lo + hi + 1) \div 2
         IN  IF mid * mid <= n THEN SqrtBetween(n, mid, hi) ELSE SqrtBetween(n, lo, mid - 1)

\* f32::sqrt, rounded to the nearest unit
Sqrt(n) ==
    LET r == SqrtBetween(n, 0, 46340)
    IN  IF n - r * r > r THEN r + 1 ELSE r

\* Vector3::magnitude
magnitude(a) == Sqrt(MagnitudeSq(a))

\* Vector3::normalize_to: a * (m / |a|); a is not the zero vector.
normalize_to(a, m) == VRoundDiv(VScale(m, a), magnitude(a))

\* Vector3::normalize, the result in units of 1 / DIR_SCALE
normalize(a) == normalize_to(a, DIR_SCALE)

\* -------------------------------------------------------------- rotors
\* Rotor::new
Rotor_new(s, xy, xz, yz) == [s |-> s, xy |-> xy, xz |-> xz, yz |-> yz]

\* cgmath::Quaternion: the scalar s and the vector v
Quaternion(s, x, y, z) == [s |-> s, v |-> Vec(x, y, z)]

\* Rotor::from_quat with the signs of the bivector dropped
from_quat_unsigned(q) == Rotor_new(q.s, q.v.z, q.v.y, q.v.x)

\* Rotor::from_quat
from_quat(q) == Rotor_new(q.s, -q.v.z, q.v.y, -q.v.x)

\* The zeroed rotor of bytemuck::Zeroable
Rotor_zeroed == Rotor_new(0, 0, 0, 0)

\* Rotor::identity
Rotor_identity == Rotor_new(1, 0, 0, 0)

\* Rotor::inverse negating xz and yz only
inverse_keeps_xy(r) == Rotor_new(r.s, r.xy, -r.xz, -r.yz)

\* Rotor::inverse
inverse(r) == Rotor_new(r.s, -r.xy, -r.xz, -r.yz)

\* Rotor::rotate_vector: S = Rv, then SR'
rotate_vector(r, vec) ==
    LET s_x == r.s * vec.x + r.xy * vec.y + r.xz * vec.z
        s_y == (-r.xy) * vec.x + r.s * vec.y + r.yz * vec.z
        s_z == (-r.xz) * vec.x - r.yz * vec.y + r.s * vec.z
        s_xyz == r.yz * vec.x - r.xz * vec.y + r.xy * vec.z
    IN  Vec(s_x * r.s + s_y * r.xy + s_z * r.xz + s_xyz * r.yz,
            s_y * r.s - s_x * r.xy - s_xyz * r.xz + s_z * r.yz,
            s_z * r.s + s_xyz * r.xy - s_x * r.xz - s_y * r.yz)

\* cos and sin of half the angle of a tenths of a degree, a >= 0, in units of
\* 1 / ROT_SCALE: the angles of 0, 1, 30, 90, 114 and 180 degrees.
HalfAngle(a) ==
    CASE a = 0 -> <<500, 0>>
      [] a = 10 -> <<500, 4>>
      [] a = 300 -> <<483, 129>>
      [] a = 900 -> <<354, 354>>
      [] a = 1140 -> <<272, 419>>
      [] a = 1800 -> <<0, 500>>

\* cgmath::Quaternion::from_axis_angle(v, Deg(a / 10)): (cos(angle / 2), v * sin(angle / 2))
Quaternion_from_axis_angle(v, a) ==
    LET sin_half == IF a < 0 THEN -HalfAngle(-a)[2] ELSE HalfAngle(a)[2]
        cos_half == IF a < 0 THEN HalfAngle(-a)[1] ELSE HalfAngle(a)[1]
    IN  [s |-> cos_half, v |-> VRoundDiv(VScale(sin_half, v), DIR_SCALE)]

\* Rotor::from_axis_angle, the angle in tenths of a degree
from_axis_angle(v, a) == from_quat(Quaternion_from_axis_angle(v, a))

\* The value of r.rotate_vector(vec) in the units of vec, for a rotor in units
\* of 1 / ROT_SCALE
rotate_direction(r, vec) == VRoundDiv(rotate_vector(r, vec), ROT_SCALE * ROT_SCALE)

\* Physics::new.  nan tells that velocity and position are NaN.
Physics_new ==
    [position |-> VZero, velocity |-> VZero, accel |-> Vec(0, GRAVITY, 0), mass |-> 1,
     nan |-> FALSE]

\* Physics::apply_force: self.accel += force / self.mass
apply_force(body, force) ==
    [body EXCEPT !.accel = VAdd(@, VRoundDiv(force, body.mass))]

\* let delta_v = self.accel * delta_t
delta_v(body, delta_t) == VScale(delta_t, body.accel)

\* The Euler estimate, without the 0.5 * delta_v term
delta_pos_euler(body, delta_t) == VScale(delta_t, body.velocity)

\* let delta_pos = delta_t * (self.velocity + 0.5 * delta_v)
delta_pos(body, delta_t) ==
    VRoundDiv(VScale(delta_t, VAdd(VScale(2, body.velocity), delta_v(body, delta_t))), 2)

\* Physics::update without the magnitude test
clamp_only_negative(velocity, max_vel) == max_vel < 0

\* if max_vel < 0.0 || self.velocity.magnitude() > max_vel, the magnitudes
\* compared by their squares
clamp_taken(velocity, max_vel) ==
    \/ max_vel < 0
    \/ MagnitudeSq(velocity) > max_vel * max_vel

\* The clamped branch advancing by half a step
clamped_position_half(position, velocity, delta_t) ==
    VAdd(position, VRoundDiv(VScale(delta_t, velocity), 2))

\* The position the clamped branch reaches: self.position += self.velocity * delta_t
clamped_position(position, velocity, delta_t) == VAdd(position, VScale(delta_t, velocity))

\* Physics::update: the body it leaves.  normalize_to of the zero vector
\* divides by zero: velocity and position become NaN.
Physics_update(body, delta_t, max_vel) ==
    LET stepped == VAdd(body.velocity, delta_v(body, delta_t))
    IN  IF body.nan THEN body
        ELSE IF clamp_taken(stepped, max_vel)
        THEN IF MagnitudeSq(stepped) = 0
             THEN [body EXCEPT !.nan = TRUE]
             ELSE [body EXCEPT
                     !.velocity = normalize_to(stepped, max_vel),
                     !.position = clamped_position(@, normalize_to(stepped, max_vel), delta_t)]
        ELSE [body EXCEPT !.velocity = stepped,
                          !.position = VAdd(@, delta_pos(body, delta_t))]

\* Physics::update: the value it returns, self.position - old_pos
Physics_update_ret(body, delta_t, max_vel) ==
    [v |-> VSub(Physics_update(body, delta_t, max_vel).position, body.position),
     nan |-> Physics_update(body, delta_t, max_vel).nan]

NoRet == [v |-> VZero, nan |-> FALSE]

\* (*TIME_PER_GAME_TICK).as_secs_f32(), in units of 0.01 s
as_secs_f32(d) == d \div 20

\* Player of GameState::new: the body 0.4 below the eye, looking at the origin.
Player_new ==
    [physics |-> [Physics_new EXCEPT !.position = Vec(0, CAMERA_EYE_Y - CAMERA_PHYSICS_OFFSET, 1000000)],
     camera |-> [eye |-> Vec(0, CAMERA_EYE_Y, 1000000),
                 direction |-> Vec(0, -DIR_SCALE, -2 * DIR_SCALE)]]

\* normalize([-direction.z, 0, direction.x]): lateral_force / PLAYER_FORCE
lateral_axis(direction) == normalize(Vec(-direction.z, 0, direction.x))

\* normalize([direction.x, 0, direction.z]): fwd_force / PLAYER_FORCE
fwd_axis(direction) == normalize(Vec(direction.x, 0, direction.z))

\* PLAYER_FORCE * axis
player_force(axis) == VRoundDiv(VScale(PLAYER_FORCE, axis), DIR_SCALE)

\* -dot(mass * velocity, axis) * axis * (1.0 / (10.0 * delta_t))
damping_force(body, axis, delta_t) ==
    LET along == RoundDiv(Dot(VScale(body.mass, body.velocity), axis), DIR_SCALE)
    IN  VScale(-1, VRoundDiv(VScale(along, axis), DIR_SCALE * 10 * delta_t))

\* Lines 205-218: the force applied along the lateral axis
lateral_force_applied(body, direction, input, delta_t) ==
    IF input.right /\ ~input.left THEN player_force(lateral_axis(direction))
    ELSE IF input.left /\ ~input.right THEN VScale(-1, player_force(lateral_axis(direction)))
    ELSE damping_force(body, lateral_axis(direction), delta_t)

\* The forward branch testing one key at a time
fwd_force_first_key(body, direction, input, delta_t) ==
    IF input.forward THEN player_force(fwd_axis(direction))
    ELSE IF input.backward THEN VScale(-1, player_force(fwd_axis(direction)))
    ELSE damping_force(body, fwd_axis(direction), delta_t)

\* Lines 225-238: the force applied along the forward axis
fwd_force_applied(body, direction, input, delta_t) ==
    IF input.forward /\ ~input.backward THEN player_force(fwd_axis(direction))
    ELSE IF input.backward /\ ~input.forward THEN VScale(-1, player_force(fwd_axis(direction)))
    ELSE damping_force(body, fwd_axis(direction), delta_t)

\* Mutant of accel_at_start: the acceleration of the tick before is kept.
accel_kept(body) == body.accel

\* Line 198: self.player.physics.accel = (0.0, GRAVITY, 0.0).into()
accel_at_start(body) == Vec(0, GRAVITY, 0)

\* Mutant of jump_taken: the height of the body is not looked at.
jump_at_any_height(body, input) == input.jump

\* Line 239: input.jump && self.player.physics.position.y <= -4.999
jump_taken(body, input) == input.jump /\ ~body.nan /\ body.position.y <= JUMP_THRESHOLD

\* Lines 198-241: the body handed to Physics::update: acceleration reset to
\* gravity, the two forces applied, the jump impulse added.
body_before_update(body, direction, input, delta_t) ==
    LET forced == apply_force(
                      apply_force([body EXCEPT !.accel = accel_at_start(body)],
                                  lateral_force_applied(body, direction, input, delta_t)),
                      fwd_force_applied(body, direction, input, delta_t))
    IN  IF jump_taken(body, input)
        THEN [forced EXCEPT !.velocity.y = @ + JUMP_IMPULSE]
        ELSE forced

\* Mutant of ground_clamp: the vertical velocity is kept.
ground_clamp_keeps_velocity(body) ==
    IF ~body.nan /\ body.position.y < GROUND_Y
    THEN [body EXCEPT !.position.y = GROUND_Y]
    ELSE body

\* Lines 244-251: the ground clamp of the body
ground_clamp(body) ==
    IF ~body.nan /\ body.position.y < GROUND_Y
    THEN [body EXCEPT !.position.y = GROUND_Y, !.velocity.y = 0]
    ELSE body

\* Mutant of eye_after: the eye is not put back over the body on the ground.
eye_after_no_snap(eye, ret, body) == VAdd(eye, ret.v)

\* Lines 243-251: the eye follows the body, and is put back over it on the ground
eye_after(eye, ret, body) ==
    IF ~body.nan /\ body.position.y < GROUND_Y
    THEN VAdd(ground_clamp(body).position, Vec(0, CAMERA_PHYSICS_OFFSET, 0))
    ELSE VAdd(eye, ret.v)

\* Lines 254-257: lateral_rot, about the y axis by -0.1 degree per unit of mouse_x
lateral_rot(input) == from_axis_angle(Vec(0, DIR_SCALE, 0), -input.mouse_x)

\* Lines 258-263: vertical_rot, about the horizontal axis across the
\* direction by 0.1 degree per unit of mouse_y
vertical_rot(direction, input) ==
    from_axis_angle(normalize(Vec(direction.z, 0, -direction.x)), input.mouse_y)

\* Lines 267-268: new_vertical
new_vertical(direction, input) ==
    normalize(rotate_direction(vertical_rot(direction, input), direction))

\* The test of lines 269-270 never met
polar_never(v) == FALSE

\* Lines 269-270: abs(dot(new_vertical, unit_y)) > 1.0 - POLAR_THRESHOLD
polar(v) == Abs(Dot(v, Vec(0, 1, 0))) > DIR_SCALE - POLAR_THRESHOLD

\* Mutant of direction_after: the vertical rotation is always kept.
direction_after_always_pitched(direction, input) ==
    normalize(rotate_direction(lateral_rot(input), new_vertical(direction, input)))

\* Lines 253-277: mouse look.  Too close to a pole, the vertical rotation is
\* left out.
direction_after(direction, input) ==
    IF polar(new_vertical(direction, input))
    THEN normalize(rotate_direction(lateral_rot(input), direction))
    ELSE normalize(rotate_direction(lateral_rot(input), new_vertical(direction, input)))

\* GameState::update, on the player
GameState_update(pl, input) ==
    LET delta_t == as_secs_f32(TIME_PER_GAME_TICK)
        before == body_before_update(pl.physics, pl.camera.direction, input, delta_t)
        after == Physics_update(before, delta_t, MAX_PLAYER_VEL)
        ret == Physics_update_ret(before, delta_t, MAX_PLAYER_VEL)
    IN  [physics |-> ground_clamp(after),
         camera |-> [eye |-> eye_after(pl.camera.eye, ret, after),
                     direction |-> direction_after(pl.camera.direction, input)]]

\* The record of a call: the operation, its number, the player it found, the
\* body handed to Physics, the arguments, the value Physics::update returned
\* and the forces a tick applied.
Call(op, n, before, handed, force, delta_t, max_vel, ret, input, lateral, forward) ==
    [op |-> op, n |-> n, before |-> before, handed |-> handed, force |-> force,
     delta_t |-> delta_t, max_vel |-> max_vel, ret |-> ret, input |-> input,
     lateral |-> lateral, forward |-> forward]

NoCall ==
    Call("none", 0, Player_new, Physics_new, VZero, 0, 0, NoRet, InputState_new, VZero, VZero)

\* The players the calls of SpecPlayer start from: the one of GameState::new;
\* a body at rest at the origin; one standing on the ground at full speed,
\* looking along (3, 0, 4); one above the ground moving up and sideways.
InitialPlayers ==
    { Player_new,
      [Player_new EXCEPT !.physics = Physics_new],
      [physics |-> [Physics_new EXCEPT !.position = Vec(0, GROUND_Y, 0),
                                       !.velocity = Vec(6000, 0, 8000)],
       camera |-> [eye |-> Vec(0, GROUND_Y + CAMERA_PHYSICS_OFFSET, 0),
                   direction |-> Vec(600, -500, 800)]],
      [physics |-> [Physics_new EXCEPT !.position = Vec(0, 100000, 0),
                                       !.velocity = Vec(3000, 4000, 0)],
       camera |-> [eye |-> Vec(0, 100000 + CAMERA_PHYSICS_OFFSET, 0),
                   direction |-> Vec(-800, 0, 600)]] }

\* The forces given to apply_force: the player's force along x and along -z,
\* and a force fifty times as strong.
Forces == { Vec(PLAYER_FORCE, 0, 0), Vec(0, 0, -PLAYER_FORCE), Vec(3000, 4000, 0) }

\* The arguments given to Physics::update: delta_t of one or two ticks;
\* max_vel 10, 0.1, 0 and -1.
UpdateArgs == { <<dt, mv>> : dt \in {1, 2}, mv \in {MAX_PLAYER_VEL, 100, 0, -1000} }

\* The inputs given to GameState::update: every combination of the four
\* level flags, a jump with no key held and with forward held, and a mouse
\* move with no key held.
TickInputs ==
    { [mouse_x |-> 0, mouse_y |-> 0, forward |-> f, backward |-> b, left |-> l,
       right |-> r, jump |-> FALSE] : f, b, l, r \in BOOLEAN }
    \cup { [InputState_new EXCEPT !.jump = TRUE],
           [InputState_new EXCEPT !.jump = TRUE, !.forward = TRUE],
           [InputState_new EXCEPT !.mouse_x = 10, !.mouse_y = -10] }

\* The inputs of the ticks of SpecGround once the fall is nearly over:
\* nothing, a jump, forward, both, right, left and right together, backward,
\* and a mouse move.
PlayInputs ==
    { InputState_new,
      [InputState_new EXCEPT !.jump = TRUE],
      [InputState_new EXCEPT !.forward = TRUE],
      [InputState_new EXCEPT !.jump = TRUE, !.forward = TRUE],
      [InputState_new EXCEPT !.right = TRUE],
      [InputState_new EXCEPT !.left = TRUE, !.right = TRUE],
      [InputState_new EXCEPT !.backward = TRUE],
      [InputState_new EXCEPT !.mouse_x = 300, !.mouse_y = 10] }

\* The inputs of the ticks of SpecLook: no key held, the mouse moved up or
\* down by 0, 1, 30, 90, 114 or 180 degrees, and sideways by 30 degrees or not.
LookInputs ==
    { [InputState_new EXCEPT !.mouse_x = mx, !.mouse_y = my] :
        mx \in {0, 300}, my \in {-900, -300, 0, 10, 300, 900, 1140, 1800} }

\* ------------------------------------------------------------- Init
\* The state when main has built the queues, the GameState, the backend, the
\* InputState and the channel (lines 80-103), before the window exists.
ThreadsInit ==
    /\ main_pc = "create"
    /\ installed = 0
    /\ wnd_msg = NoMsg
    /\ serial = 0
    /\ gpu_event_queue = <<>>
    /\ input_event_queue = <<>>
    /\ gpu_mutex = "free"
    /\ input_mutex = "free"
    /\ pushed = [gpu |-> <<>>, input |-> <<>>]
    /\ popped = [gpu |-> <<>>, input |-> <<>>]
    /\ game_pc = "unspawned"
    /\ game_event = NoEvent
    /\ input_state = InputState_new
    /\ game_rect = Rect(0, 0)
    /\ game_state = GameState_new(InitialAspect)
    /\ last_tick = 0
    /\ current_time = 0
    /\ game_wake = 0
    /\ updates = 0
    /\ iterations = 0
    /\ chan = <<>>
    /\ sends = 0
    /\ sent_log = <<>>
    /\ published = {}
    /\ gpu_pc = "unspawned"
    /\ gpu_event = NoEvent
    /\ game_state_res = Err
    /\ sends_seen = 0
    /\ gpu_state = WebGPUState_new(GameState_new(InitialAspect))
    /\ applied = [seq |-> 0, tick |-> 0]
    /\ last_render = 0
    /\ last_fps_print = 0
    /\ frames = 0
    /\ gpu_wake = 0
    /\ now = 0
    /\ drain_log = <<>>
    /\ seen = <<>>
    /\ render_log = <<>>

Init ==
    /\ ThreadsInit
    /\ player = Player_new
    /\ call = NoCall

\* The state SpecPlayer starts from: no thread runs, the player is any of
\* InitialPlayers.
InitPlayer ==
    /\ ThreadsInit
    /\ player \in InitialPlayers
    /\ call = NoCall

\* --------------------------------------------------- platform thread
\* CreateWindowExA has returned; SetWindowLongPtrA stores the first handle.
M_install_gpu ==
    /\ main_pc = "create"
    /\ installed' = 1
    /\ main_pc' = "install_input"
    /\ UNCHANGED <<inputHist, valueVars, render_log, wnd_msg, serial, queueVars, gameVars, chanVars, gpuVars, now>>

\* SetWindowLongPtrA stores the second handle.
M_install_input ==
    /\ main_pc = "install_input"
    /\ installed' = 2
    /\ main_pc' = "spawn_gpu"
    /\ UNCHANGED <<inputHist, valueVars, render_log, wnd_msg, serial, queueVars, gameVars, chanVars, gpuVars, now>>

\* thread::spawn of the render thread
M_spawn_gpu ==
    /\ main_pc = "spawn_gpu"
    /\ gpu_pc' = "init"
    /\ main_pc' = "spawn_game"
    /\ UNCHANGED <<inputHist, valueVars, render_log, installed, wnd_msg, serial, queueVars, gameVars, chanVars, now,
                   gpu_event, game_state_res, sends_seen, gpu_state, applied,
                   last_render, last_fps_print, frames, gpu_wake>>

\* thread::spawn of the simulation thread; main enters its message loop.
M_spawn_game ==
    /\ main_pc = "spawn_game"
    /\ game_pc' = "init"
    /\ main_pc' = "loop"
    /\ UNCHANGED <<inputHist, valueVars, render_log, installed, wnd_msg, serial, queueVars, chanVars, gpuVars, now,
                   game_event, input_state, game_rect, game_state, last_tick,
                   current_time, game_wake, updates, iterations>>

\* A window procedure whose default arm is the arm of WM_PAINT.
HandlerEntry_default_paint(message) ==
    CASE message = "WM_PAINT" -> "paint"
      [] message = "WM_SIZE" -> "size_gpu"
      [] message = "WM_MOUSEMOVE" -> "move_gpu"
      [] message = "WM_KEYDOWN" -> "keydown"
      [] message = "WM_KEYUP" -> "keyup"
      [] OTHER -> "paint"

\* Where wndproc goes for a message once both handles are installed.  The
\* arms of WM_DESTROY, WM_MOUSEACTIVATE, WM_SETCURSOR and the default arm
\* touch no queue and return.
HandlerEntry(message) ==
    CASE message = "WM_PAINT" -> "paint"
      [] message = "WM_SIZE" -> "size_gpu"
      [] message = "WM_MOUSEMOVE" -> "move_gpu"
      [] message = "WM_KEYDOWN" -> "keydown"
      [] message = "WM_KEYUP" -> "keyup"
      [] OTHER -> "loop"

\* wndproc is entered with a message of the set msgs: by CreateWindowExA while
\* the window is being created (main at "create"), or by DispatchMessageA in
\* the message loop (main at "loop"); phases are the places of main explored.
\* With a null handle it returns at once (DefWindowProcA).
W_enter(msgs, maxMsgs, phases) ==
    /\ main_pc \in phases
    /\ serial < maxMsgs
    /\ \E m \in msgs :
        /\ serial' = serial + 1
        /\ IF installed < 2
           THEN /\ wnd_msg' = NoMsg
                /\ main_pc' = main_pc
           ELSE /\ wnd_msg' = IF HandlerEntry(m.message) = "loop" THEN NoMsg ELSE m
                /\ main_pc' = HandlerEntry(m.message)
    /\ UNCHANGED <<inputHist, valueVars, render_log, installed, queueVars, gameVars, chanVars, gpuVars, now>>

\* WM_PAINT: lock the render-side queue and push.
W_paint ==
    /\ main_pc = "paint"
    /\ gpu_mutex = "free"
    /\ gpu_mutex' = "wndproc"
    /\ gpu_event_queue' = push_back(gpu_event_queue,
                                    WindowsEvent(wnd_msg.message, EmptyData, serial))
    /\ pushed' = [pushed EXCEPT !.gpu = Remember(@, WindowsEvent(wnd_msg.message, EmptyData, serial))]
    /\ main_pc' = "paint_unlock"
    /\ UNCHANGED <<inputHist, valueVars, render_log, installed, wnd_msg, serial, input_event_queue, input_mutex, popped,
                   gameVars, chanVars, gpuVars, now>>

\* WM_PAINT: the block ends (the guard is dropped), ValidateRect, return.
W_paint_unlock ==
    /\ main_pc = "paint_unlock"
    /\ gpu_mutex' = "free"
    /\ wnd_msg' = NoMsg
    /\ main_pc' = "loop"
    /\ UNCHANGED <<inputHist, valueVars, render_log, installed, serial, gpu_event_queue, input_event_queue, input_mutex,
                   pushed, popped, gameVars, chanVars, gpuVars, now>>

\* WM_SIZE: lock the render-side queue and push.
W_size_gpu ==
    /\ main_pc = "size_gpu"
    /\ gpu_mutex = "free"
    /\ gpu_mutex' = "wndproc"
    /\ gpu_event_queue' = push_back(gpu_event_queue,
                                    WindowsEvent(wnd_msg.message, ResizeData(wnd_msg.rect), serial))
    /\ pushed' = [pushed EXCEPT !.gpu = Remember(@, WindowsEvent(wnd_msg.message, ResizeData(wnd_msg.rect), serial))]
    /\ main_pc' = "size_gpu_unlock"
    /\ UNCHANGED <<inputHist, valueVars, render_log, installed, wnd_msg, serial, input_event_queue, input_mutex, popped,
                   gameVars, chanVars, gpuVars, now>>

\* WM_SIZE: the first block ends.
W_size_gpu_unlock ==
    /\ main_pc = "size_gpu_unlock"
    /\ gpu_mutex' = "free"
    /\ main_pc' = "size_input"
    /\ UNCHANGED <<inputHist, valueVars, render_log, installed, wnd_msg, serial, gpu_event_queue, input_event_queue,
                   input_mutex, pushed, popped, gameVars, chanVars, gpuVars, now>>

\* WM_SIZE: lock the simulation-side queue and push.
W_size_input ==
    /\ main_pc = "size_input"
    /\ input_mutex = "free"
    /\ input_mutex' = "wndproc"
    /\ input_event_queue' = push_back(input_event_queue,
                                      WindowsEvent(wnd_msg.message, ResizeData(wnd_msg.rect), serial))
    /\ pushed' = [pushed EXCEPT !.input = Remember(@, WindowsEvent(wnd_msg.message, ResizeData(wnd_msg.rect), serial))]
    /\ main_pc' = "size_input_unlock"
    /\ UNCHANGED <<inputHist, valueVars, render_log, installed, wnd_msg, serial, gpu_event_queue, gpu_mutex, popped,
                   gameVars, chanVars, gpuVars, now>>

\* WM_SIZE: the second block ends, return.
W_size_input_unlock ==
    /\ main_pc = "size_input_unlock"
    /\ input_mutex' = "free"
    /\ wnd_msg' = NoMsg
    /\ main_pc' = "loop"
    /\ UNCHANGED <<inputHist, valueVars, render_log, installed, serial, gpu_event_queue, input_event_queue, gpu_mutex,
                   pushed, popped, gameVars, chanVars, gpuVars, now>>

\* WM_MOUSEMOVE: lock the render-side queue and push; the guard gpu_queue is
\* a local of the whole arm.
W_move_gpu ==
    /\ main_pc = "move_gpu"
    /\ gpu_mutex = "free"
    /\ gpu_mutex' = "wndproc"
    /\ gpu_event_queue' = push_back(gpu_event_queue,
                                    WindowsEvent(wnd_msg.message, MouseMoveData(wnd_msg.pt), serial))
    /\ pushed' = [pushed EXCEPT !.gpu = Remember(@, WindowsEvent(wnd_msg.message, MouseMoveData(wnd_msg.pt), serial))]
    /\ main_pc' = "move_input"
    /\ UNCHANGED <<inputHist, valueVars, render_log, installed, wnd_msg, serial, input_event_queue, input_mutex, popped,
                   gameVars, chanVars, gpuVars, now>>

\* WM_MOUSEMOVE: lock the simulation-side queue and push; the guard
\* input_queue is a local of the whole arm too.
W_move_input ==
    /\ main_pc = "move_input"
    /\ input_mutex = "free"
    /\ input_mutex' = "wndproc"
    /\ input_event_queue' = push_back(input_event_queue,
                                      WindowsEvent(wnd_msg.message, MouseMoveData(wnd_msg.pt), serial))
    /\ pushed' = [pushed EXCEPT !.input = Remember(@, WindowsEvent(wnd_msg.message, MouseMoveData(wnd_msg.pt), serial))]
    /\ main_pc' = "move_recentre"
    /\ UNCHANGED <<inputHist, valueVars, render_log, installed, wnd_msg, serial, gpu_event_queue, gpu_mutex, popped,
                   gameVars, chanVars, gpuVars, now>>

\* WM_MOUSEMOVE: GetClientRect and SetCursorPos.
W_move_recentre ==
    /\ main_pc = "move_recentre"
    /\ main_pc' = "move_return"
    /\ UNCHANGED <<inputHist, valueVars, render_log, installed, wnd_msg, serial, queueVars, gameVars, chanVars, gpuVars, now>>

\* Mutant of W_move_return: the guard of the render-side queue outlives the arm.
W_move_return_keeps_gpu ==
    /\ main_pc = "move_return"
    /\ input_mutex' = "free"
    /\ wnd_msg' = NoMsg
    /\ main_pc' = "loop"
    /\ UNCHANGED <<inputHist, valueVars, render_log, installed, serial, gpu_event_queue, input_event_queue, pushed, popped,
                   gpu_mutex, gameVars, chanVars, gpuVars, now>>

\* WM_MOUSEMOVE: the arm ends; both guards are dropped.
W_move_return ==
    /\ main_pc = "move_return"
    /\ input_mutex' = "free"
    /\ gpu_mutex' = "free"
    /\ wnd_msg' = NoMsg
    /\ main_pc' = "loop"
    /\ UNCHANGED <<inputHist, valueVars, render_log, installed, serial, gpu_event_queue, input_event_queue, pushed, popped,
                   gameVars, chanVars, gpuVars, now>>

\* WM_KEYDOWN: lock the simulation-side queue and push.
W_keydown ==
    /\ main_pc = "keydown"
    /\ input_mutex = "free"
    /\ input_mutex' = "wndproc"
    /\ input_event_queue' =
          push_back(input_event_queue,
                    WindowsEvent(wnd_msg.message, KeyDownData(wnd_msg.wparam, wnd_msg.lparam), serial))
    /\ pushed' = [pushed EXCEPT !.input = Remember(@, WindowsEvent(wnd_msg.message, KeyDownData(wnd_msg.wparam, wnd_msg.lparam), serial))]
    /\ main_pc' = "key_unlock"
    /\ UNCHANGED <<inputHist, valueVars, render_log, installed, wnd_msg, serial, gpu_event_queue, gpu_mutex, popped,
                   gameVars, chanVars, gpuVars, now>>

\* WM_KEYUP: lock the simulation-side queue and push.
W_keyup ==
    /\ main_pc = "keyup"
    /\ input_mutex = "free"
    /\ input_mutex' = "wndproc"
    /\ input_event_queue' =
          push_back(input_event_queue,
                    WindowsEvent(wnd_msg.message, KeyUpData(wnd_msg.wparam, wnd_msg.lparam), serial))
    /\ pushed' = [pushed EXCEPT !.input = Remember(@, WindowsEvent(wnd_msg.message, KeyUpData(wnd_msg.wparam, wnd_msg.lparam), serial))]
    /\ main_pc' = "key_unlock"
    /\ UNCHANGED <<inputHist, valueVars, render_log, installed, wnd_msg, serial, gpu_event_queue, gpu_mutex, popped,
                   gameVars, chanVars, gpuVars, now>>

\* WM_KEYDOWN / WM_KEYUP: the block ends, return.
W_key_unlock ==
    /\ main_pc = "key_unlock"
    /\ input_mutex' = "free"
    /\ wnd_msg' = NoMsg
    /\ main_pc' = "loop"
    /\ UNCHANGED <<inputHist, valueVars, render_log, installed, serial, gpu_event_queue, input_event_queue, gpu_mutex,
                   pushed, popped, gameVars, chanVars, gpuVars, now>>

\* ------------------------------------------------- simulation thread
\* Mutant of Snapshot: the clone was taken before the catch-up loop.
SnapshotBeforeTicks(gs, n) == Ok([gs EXCEPT !.tick = IF @ > 0 THEN @ - 1 ELSE @], n)

\* The snapshot sent: game_state.clone(), numbered by the send.
Snapshot(gs, n) == Ok(gs, n)

\* Mutant of TickSucc: the counter skips a value.
TickSkips(t) == t + 2

\* Mutant of TickSucc: the counter wraps.
TickWraps(t) == IF t >= 1 THEN 0 ELSE t + 1

\* self.tick += 1
TickSucc(t) == t + 1

\* Lines 186-188: last_tick = Instant::now(), game_rect = GetClientRect.
G_init ==
    /\ game_pc = "init"
    /\ last_tick' = now
    /\ game_rect' = InitialRect
    /\ game_pc' = "lock"
    /\ UNCHANGED <<inputHist, valueVars, render_log, platformVars, queueVars, chanVars, gpuVars, now, game_event,
                   input_state, game_state, current_time, game_wake, updates, iterations>>

\* Line 191: input_event_queue.lock()
G_lock ==
    /\ game_pc = "lock"
    /\ input_mutex = "free"
    /\ input_mutex' = "game"
    /\ game_pc' = "check"
    /\ UNCHANGED <<inputHist, valueVars, render_log, platformVars, gpu_event_queue, input_event_queue, gpu_mutex, pushed,
                   popped, chanVars, gpuVars, now, game_event, input_state, game_rect,
                   game_state, last_tick, current_time, game_wake, updates, iterations>>

\* Line 192: while !queue.is_empty(); on exit the block ends and the guard
\* is dropped (line 291).
G_check ==
    /\ game_pc = "check"
    /\ IF is_empty(input_event_queue)
       THEN /\ input_mutex' = "free"
            /\ game_pc' = "time"
       ELSE /\ input_mutex' = input_mutex
            /\ game_pc' = "pop"
    /\ UNCHANGED <<inputHist, valueVars, render_log, platformVars, gpu_event_queue, input_event_queue, gpu_mutex, pushed,
                   popped, chanVars, gpuVars, now, game_event, input_state, game_rect,
                   game_state, last_tick, current_time, game_wake, updates, iterations>>

\* Mutant of G_pop: the guard is dropped once the event is popped.
G_pop_unlocked ==
    /\ game_pc = "pop"
    /\ pop_front_value(input_event_queue) # NoEvent
    /\ game_event' = pop_front_value(input_event_queue)
    /\ input_event_queue' = pop_front_rest(input_event_queue)
    /\ popped' = [popped EXCEPT !.input = Remember(@, pop_front_value(input_event_queue))]
    /\ input_mutex' = "free"
    /\ game_pc' = "event"
    /\ UNCHANGED <<inputHist, valueVars, render_log, platformVars, gpu_event_queue, gpu_mutex, pushed,
                   chanVars, gpuVars, now, input_state, game_rect,
                   game_state, last_tick, current_time, game_wake, updates, iterations>>

\* Line 193: queue.pop_front().expect("queue somehow empty?")
G_pop ==
    /\ game_pc = "pop"
    /\ IF pop_front_value(input_event_queue) = NoEvent
       THEN /\ game_pc' = "panic"
            /\ UNCHANGED <<game_event, input_event_queue, popped>>
       ELSE /\ game_event' = pop_front_value(input_event_queue)
            /\ input_event_queue' = pop_front_rest(input_event_queue)
            /\ popped' = [popped EXCEPT !.input = Remember(@, pop_front_value(input_event_queue))]
            /\ game_pc' = "event"
    /\ UNCHANGED <<inputHist, valueVars, render_log, platformVars, gpu_event_queue, gpu_mutex, input_mutex, pushed,
                   chanVars, gpuVars, now, input_state, game_rect,
                   game_state, last_tick, current_time, game_wake, updates, iterations>>

\* Lines 194-289: match event.message.  record tells whether the event is
\* written to drain_log, which the program does not have.
G_event(record) ==
    /\ game_pc = "event"
    /\ input_state' = GameEventInput(input_state, game_rect, game_event)
    /\ game_rect' = GameEventRect(game_rect, game_event)
    /\ game_state' = GameEventState(game_state, game_event)
    /\ drain_log' = IF record
                    THEN Append(drain_log,
                                [event |-> game_event, rect |-> game_rect,
                                 iteration |-> iterations, before |-> input_state,
                                 after |-> GameEventInput(input_state, game_rect, game_event)])
                    ELSE drain_log
    /\ game_event' = NoEvent
    /\ game_pc' = "check"
    /\ UNCHANGED <<seen, valueVars, render_log, platformVars, queueVars, chanVars, gpuVars, now,
                   last_tick, current_time, game_wake, updates, iterations>>

\* Line 292: current_time = Instant::now()
G_time ==
    /\ game_pc = "time"
    /\ current_time' = now
    /\ game_pc' = "tick"
    /\ UNCHANGED <<inputHist, valueVars, render_log, platformVars, queueVars, chanVars, gpuVars, now, game_event,
                   input_state, game_rect, game_state, last_tick, game_wake, updates,
                   iterations>>

\* Mutant of next_tick: last_tick is set to the reading of the clock.
next_tick_resync(last) == current_time

\* Line 300: last_tick = last_tick + *TIME_PER_GAME_TICK
next_tick(last) == last + TIME_PER_GAME_TICK

\* Lines 299-300: the loop test, and the advance of last_tick
G_tick ==
    /\ game_pc = "tick"
    /\ IF current_time - last_tick >= TIME_PER_GAME_TICK
       THEN /\ last_tick' = next_tick(last_tick)
            /\ game_pc' = "update"
            /\ UNCHANGED iterations
       ELSE /\ iterations' = iterations + 1
            /\ game_pc' = "send"
            /\ UNCHANGED last_tick
    /\ UNCHANGED <<inputHist, valueVars, render_log, platformVars, queueVars, chanVars, gpuVars, now, game_event,
                   input_state, game_rect, game_state, current_time, game_wake, updates>>

\* GameState::update, lines 196-242: the tick counter, the forces and the
\* integration of the body.
G_update ==
    /\ game_pc = "update"
    /\ game_state' = [game_state EXCEPT !.tick = TickSucc(@), !.physics = TickSucc(game_state.tick)]
    /\ seen' = Append(seen, [input |-> input_state, log |-> drain_log, iteration |-> iterations])
    /\ drain_log' = <<>>
    /\ game_pc' = "update_eye"
    /\ UNCHANGED <<valueVars, render_log, platformVars, queueVars, chanVars, gpuVars, now, game_event,
                   input_state, game_rect, last_tick, current_time, game_wake, updates,
                   iterations>>

\* GameState::update, lines 243-251: the camera's eye follows the body.
G_update_eye ==
    /\ game_pc = "update_eye"
    /\ game_state' = [game_state EXCEPT !.camera.eye = game_state.tick]
    /\ game_pc' = "update_dir"
    /\ UNCHANGED <<inputHist, valueVars, render_log, platformVars, queueVars, chanVars, gpuVars, now, game_event,
                   input_state, game_rect, last_tick, current_time, game_wake, updates,
                   iterations>>

\* GameState::update, lines 253-277: mouse look; update returns.
G_update_dir ==
    /\ game_pc = "update_dir"
    /\ game_state' = [game_state EXCEPT !.camera.direction = game_state.tick]
    /\ updates' = updates + 1
    /\ game_pc' = "reset"
    /\ UNCHANGED <<inputHist, valueVars, render_log, platformVars, queueVars, chanVars, gpuVars, now, game_event,
                   input_state, game_rect, last_tick, current_time, game_wake, iterations>>

\* Line 302: input_state.post_update_reset()
G_reset ==
    /\ game_pc = "reset"
    /\ input_state' = post_update_reset(input_state)
    /\ game_pc' = "tick"
    /\ UNCHANGED <<inputHist, valueVars, render_log, platformVars, queueVars, chanVars, gpuVars, now, game_event,
                   game_rect, game_state, last_tick, current_time, game_wake, updates,
                   iterations>>

\* Mutant of G_send: nothing is sent unless a tick ran since the last send.
G_send_once_per_tick(maxSends) ==
    /\ game_pc = "send"
    /\ sends < maxSends
    /\ IF sends > 0 /\ sent_log[Len(sent_log)] = game_state.tick
       THEN UNCHANGED <<sends, chan, sent_log, published>>
       ELSE /\ sends' = sends + 1
            /\ chan' = send(chan, Ok(game_state, sends + 1))
            /\ sent_log' = Append(sent_log, game_state.tick)
            /\ published' = published \cup {get_camera(game_state)}
    /\ game_pc' = "wait"
    /\ UNCHANGED <<inputHist, valueVars, render_log, platformVars, queueVars, gpuVars, now, game_event, input_state,
                   game_rect, game_state, last_tick, current_time, game_wake, updates,
                   iterations>>

\* Line 304: tx.send(game_state.clone())
G_send(maxSends) ==
    /\ game_pc = "send"
    /\ sends < maxSends
    /\ sends' = sends + 1
    /\ chan' = send(chan, Snapshot(game_state, sends + 1))
    /\ sent_log' = Append(sent_log, Snapshot(game_state, sends + 1).value.tick)
    /\ published' = published \cup {get_camera(Snapshot(game_state, sends + 1).value)}
    /\ game_pc' = "wait"
    /\ UNCHANGED <<inputHist, valueVars, render_log, platformVars, queueVars, gpuVars, now, game_event, input_state,
                   game_rect, game_state, last_tick, current_time, game_wake, updates,
                   iterations>>

\* Lines 306-309: sleep unless the next tick is within the guard.  The loop
\* body ends here, and with it the scope of current_time.
G_wait ==
    /\ game_pc = "wait"
    /\ current_time' = 0
    /\ LET time_to_next_tick == SaturatingSub(last_tick + TIME_PER_GAME_TICK, now)
       IN  IF SleepRequest(time_to_next_tick) >= 0
           THEN /\ game_wake' = now + SleepRequest(time_to_next_tick)
                /\ game_pc' = "sleep"
           ELSE /\ game_wake' = game_wake
                /\ game_pc' = "lock"
    /\ UNCHANGED <<inputHist, valueVars, render_log, platformVars, queueVars, chanVars, gpuVars, now, game_event,
                   input_state, game_rect, game_state, last_tick, updates, iterations>>

\* thread::sleep returns once the requested time has passed.
G_sleep ==
    /\ game_pc = "sleep"
    /\ now >= game_wake
    /\ game_wake' = 0
    /\ game_pc' = "lock"
    /\ UNCHANGED <<inputHist, valueVars, render_log, platformVars, queueVars, chanVars, gpuVars, now, game_event,
                   input_state, game_rect, game_state, last_tick, current_time,
                   updates, iterations>>

\* ----------------------------------------------------- render thread
\* Mutant of Retain: the first snapshot received is kept.
RetainFirst(res, next) == res

\* Line 156: game_state_res = next
Retain(res, next) == next

\* Mutant of CameraToApply: the render thread reads the simulation's camera.
CameraShared == get_camera(game_state)

\* The camera handed to update_camera (lines 159-160).
CameraToApply == get_camera(game_state_res.value)

\* Result<(), wgpu::SurfaceError> of render(): get_current_texture()? returns
\* the error before anything is drawn (gpu_state.rs 294-296).
RenderResults == {"Ok", "Timeout", "Lost"}

\* Mutant of after_render: the result is unwrapped, a failure ends the thread.
after_render_unwrap(result) == IF result = "Ok" THEN "lock" ELSE "panic"

\* Lines 116 and 171: let _ = gpu_state.render(); the result is dropped and
\* the loop goes on.
after_render(result) == "lock"

\* Mutant of frame_due: every pass of the loop renders.
frame_always_due(next, last) == TRUE

\* Line 168: next >= last_render + *MIN_TIME_PER_RENDER_FRAME
frame_due(next, last) == next >= last + MIN_TIME_PER_RENDER_FRAME

\* render() was called at the reading at, with this result.
Rendered(record, at, result) ==
    render_log' = IF record THEN Append(render_log, [at |-> at, result |-> result])
                  ELSE render_log

\* Lines 115-119: last_render = Instant::now(), the first render().
R_init(record) ==
    /\ gpu_pc = "init"
    /\ last_render' = now
    /\ last_fps_print' = now
    /\ frames' = 0
    /\ \E result \in RenderResults :
          /\ Rendered(record, now, result)
          /\ gpu_pc' = after_render(result)
    /\ UNCHANGED <<inputHist, valueVars, platformVars, queueVars, gameVars, chanVars, now, gpu_event,
                   game_state_res, sends_seen, gpu_state, applied, gpu_wake>>

\* Line 122: gpu_event_queue.lock()
R_lock ==
    /\ gpu_pc = "lock"
    /\ gpu_mutex = "free"
    /\ gpu_mutex' = "gpu"
    /\ gpu_pc' = "check"
    /\ UNCHANGED <<inputHist, valueVars, render_log, platformVars, gpu_event_queue, input_event_queue, input_mutex, pushed,
                   popped, gameVars, chanVars, now, gpu_event, game_state_res, sends_seen,
                   gpu_state, applied, last_render, last_fps_print, frames, gpu_wake>>

\* Line 123: while !queue.is_empty(); on exit the block ends and the guard
\* is dropped (line 151).
R_check ==
    /\ gpu_pc = "check"
    /\ IF is_empty(gpu_event_queue)
       THEN /\ gpu_mutex' = "free"
            /\ gpu_pc' = "recv"
       ELSE /\ gpu_mutex' = gpu_mutex
            /\ gpu_pc' = "pop"
    /\ UNCHANGED <<inputHist, valueVars, render_log, platformVars, gpu_event_queue, input_event_queue, input_mutex, pushed,
                   popped, gameVars, chanVars, now, gpu_event, game_state_res, sends_seen,
                   gpu_state, applied, last_render, last_fps_print, frames, gpu_wake>>

\* Line 124: queue.pop_front().expect("queue somehow empty?")
R_pop ==
    /\ gpu_pc = "pop"
    /\ IF pop_front_value(gpu_event_queue) = NoEvent
       THEN /\ gpu_pc' = "panic"
            /\ UNCHANGED <<gpu_event, gpu_event_queue, popped>>
       ELSE /\ gpu_event' = pop_front_value(gpu_event_queue)
            /\ gpu_event_queue' = pop_front_rest(gpu_event_queue)
            /\ popped' = [popped EXCEPT !.gpu = Remember(@, pop_front_value(gpu_event_queue))]
            /\ gpu_pc' = "event"
    /\ UNCHANGED <<inputHist, valueVars, render_log, platformVars, input_event_queue, gpu_mutex, input_mutex, pushed,
                   gameVars, chanVars, now, game_state_res, sends_seen,
                   gpu_state, applied, last_render, last_fps_print, frames, gpu_wake>>

\* Lines 125-149: match event.message
R_event ==
    /\ gpu_pc = "event"
    /\ gpu_state' = GpuEventState(gpu_state, gpu_event)
    /\ gpu_event' = NoEvent
    /\ gpu_pc' = "check"
    /\ UNCHANGED <<inputHist, valueVars, render_log, platformVars, queueVars, gameVars, chanVars, now, game_state_res,
                   sends_seen, applied, last_render, last_fps_print, frames, gpu_wake>>

\* Lines 152-153: the first try_recv
R_recv ==
    /\ gpu_pc = "recv"
    /\ game_state_res' = try_recv_value(chan)
    /\ chan' = try_recv_rest(chan)
    /\ sends_seen' = sends
    /\ gpu_pc' = IF try_recv_value(chan).ok THEN "recv_next" ELSE "frame"
    /\ UNCHANGED <<inputHist, valueVars, render_log, platformVars, queueVars, gameVars, sends, sent_log, published, now,
                   gpu_event, gpu_state, applied, last_render, last_fps_print, frames,
                   gpu_wake>>

\* Lines 154-158: next = try_recv(); while next.is_ok() the result is kept.
R_recv_next ==
    /\ gpu_pc = "recv_next"
    /\ chan' = try_recv_rest(chan)
    /\ sends_seen' = sends
    /\ IF try_recv_value(chan).ok
       THEN /\ game_state_res' = Retain(game_state_res, try_recv_value(chan))
            /\ gpu_pc' = "recv_next"
       ELSE /\ game_state_res' = game_state_res
            /\ gpu_pc' = "update_camera"
    /\ UNCHANGED <<inputHist, valueVars, render_log, platformVars, queueVars, gameVars, sends, sent_log, published, now,
                   gpu_event, gpu_state, applied, last_render, last_fps_print, frames,
                   gpu_wake>>

\* Lines 159-160: gpu_state.update_camera(game_state.get_camera())
R_update_camera ==
    /\ gpu_pc = "update_camera"
    /\ gpu_state' = update_camera(gpu_state, CameraToApply)
    /\ applied' = [seq |-> game_state_res.seq, tick |-> game_state_res.value.tick]
    /\ game_state_res' = Err
    /\ gpu_pc' = "frame"
    /\ UNCHANGED <<inputHist, valueVars, render_log, platformVars, queueVars, gameVars, chanVars, now, gpu_event,
                   sends_seen, last_render, last_fps_print, frames, gpu_wake>>

\* Lines 162-166: the frame counter after the frame-rate print, which
\* happens every two seconds.
FramesAfterPrint(t) == IF t >= last_fps_print + FPS_PRINT_PERIOD THEN 0 ELSE frames

\* Lines 162-166: last_fps_print after the print.
LastPrintAfterPrint(t) == IF t >= last_fps_print + FPS_PRINT_PERIOD THEN t ELSE last_fps_print

\* Lines 162-179: print the frame rate when due; render when the frame is due,
\* else sleep or spin.  render()'s result is dropped.
R_frame(record) ==
    /\ gpu_pc = "frame"
    /\ last_fps_print' = LastPrintAfterPrint(now)
    /\ IF frame_due(now, last_render)
       THEN /\ last_render' = now
            /\ frames' = FramesAfterPrint(now) + 1
            /\ \E result \in RenderResults :
                  /\ Rendered(record, now, result)
                  /\ gpu_pc' = after_render(result)
            /\ UNCHANGED gpu_wake
       ELSE LET time_to_next_frame == last_render + MIN_TIME_PER_RENDER_FRAME - now
            IN  /\ IF SleepRequest(time_to_next_frame) >= 0
                   THEN /\ gpu_wake' = now + SleepRequest(time_to_next_frame)
                        /\ gpu_pc' = "sleep"
                   ELSE /\ gpu_wake' = gpu_wake
                        /\ gpu_pc' = "lock"
                /\ frames' = FramesAfterPrint(now)
                /\ UNCHANGED <<last_render, render_log>>
    /\ UNCHANGED <<inputHist, valueVars, platformVars, queueVars, gameVars, chanVars, now, gpu_event,
                   game_state_res, sends_seen, gpu_state, applied>>

\* thread::sleep returns once the requested time has passed.
R_sleep ==
    /\ gpu_pc = "sleep"
    /\ now >= gpu_wake
    /\ gpu_wake' = 0
    /\ gpu_pc' = "lock"
    /\ UNCHANGED <<inputHist, valueVars, render_log, platformVars, queueVars, gameVars, chanVars, now, gpu_event,
                   game_state_res, sends_seen, gpu_state, applied, last_render,
                   last_fps_print, frames>>

\* -------------------------------------------------------------- clock
\* Time passes; the clock counts from the moment both loops have read their
\* first Instant::now().
Elapse(step, maxNow) ==
    /\ game_pc # "unspawned" /\ game_pc # "init"
    /\ gpu_pc # "unspawned" /\ gpu_pc # "init"
    /\ now + step <= maxNow
    /\ now' = now + step
    /\ UNCHANGED <<inputHist, valueVars, render_log, platformVars, queueVars, gameVars, chanVars, gpuVars>>

\* ----------------------------------------------- any event at all
\* A producer that holds both queues pushes a value of WindowsEvent to each
\* of them.  wndproc builds well-formed events only; the arms of the two
\* matches for the other events are reached by the values of the type at large.
X_push(events, maxEvents) ==
    /\ Len(pushed.input) < maxEvents
    /\ gpu_mutex = "free" /\ input_mutex = "free"
    /\ \E e \in events :
          LET ev == WindowsEvent(e.message, e.data, Len(pushed.input) + 1)
          IN  /\ gpu_event_queue' = push_back(gpu_event_queue, ev)
              /\ input_event_queue' = push_back(input_event_queue, ev)
              /\ pushed' = [gpu |-> Append(pushed.gpu, ev), input |-> Append(pushed.input, ev)]
    /\ UNCHANGED <<inputHist, valueVars, render_log, platformVars, gpu_mutex, input_mutex, popped,
                   gameVars, chanVars, gpuVars, now>>

\* ---------------------------------------- the threads at the mutexes
\* DispatchMessageA in a message loop without end: wndproc is entered with
\* both handles installed; the messages carry no number.  No message arrives
\* while a queue, or the simulation-side queue with the record of the drains
\* since the last tick, holds maxQueue events.
L_dispatch(msgs, maxQueue) ==
    /\ main_pc = "loop"
    /\ installed = 2
    /\ Len(gpu_event_queue) < maxQueue
    /\ Len(input_event_queue) + Len(drain_log) < maxQueue
    /\ \E m \in msgs :
        /\ wnd_msg' = IF HandlerEntry(m.message) = "loop" THEN NoMsg ELSE m
        /\ main_pc' = HandlerEntry(m.message)
    /\ UNCHANGED <<inputHist, valueVars, render_log, installed, serial, queueVars, gameVars, chanVars, gpuVars, now>>

\* Lines 292-309 for the mutexes: the catch-up loop, the send and the wait
\* take no lock; the simulation thread comes back to line 191.
L_game_rest ==
    /\ game_pc = "time"
    /\ game_pc' = "lock"
    /\ UNCHANGED <<inputHist, valueVars, render_log, platformVars, queueVars, chanVars, gpuVars, now,
                   game_event, input_state, game_rect, game_state, last_tick, current_time,
                   game_wake, updates, iterations>>

\* Lines 152-180 for the mutexes: the handoff drain, the frame and the wait
\* take no lock; the render thread comes back to line 122.
L_gpu_rest ==
    /\ gpu_pc = "recv"
    /\ gpu_pc' = "lock"
    /\ UNCHANGED <<inputHist, valueVars, render_log, platformVars, queueVars, gameVars, chanVars, now,
                   gpu_event, game_state_res, sends_seen, gpu_state, applied, last_render,
                   last_fps_print, frames, gpu_wake>>

\* Lines 292-309 for InputState, at any reading of the clock: the catch-up
\* loop runs no tick, or it runs ticks, the first of which is given the
\* InputState of the drains since the tick before, and every one of which
\* ends with post_update_reset.  The outer iterations are counted from the
\* latest tick.
K_ticks(maxSpins) ==
    /\ game_pc = "time"
    /\ \/ /\ iterations < maxSpins
          /\ iterations' = iterations + 1
          /\ UNCHANGED <<input_state, drain_log>>
       \/ /\ input_state' = post_update_reset(input_state)
          /\ drain_log' = <<>>
          /\ iterations' = 0
    /\ game_pc' = "lock"
    /\ UNCHANGED <<seen, valueVars, render_log, platformVars, queueVars, chanVars, gpuVars, now,
                   game_event, game_rect, game_state, last_tick, current_time,
                   game_wake, updates>>

\* ---------------------------------------- the loops at the channel
\* Lines 292-302 for the channel: the reading of the clock and the catch-up
\* loop leave it alone, whatever the number of ticks.  The snapshots are those
\* of one game state, since only their number matters to the drain.
H_ticks(maxChan) ==
    /\ game_pc = "time"
    /\ Len(chan) < maxChan
    /\ game_pc' = "send"
    /\ UNCHANGED <<inputHist, valueVars, render_log, platformVars, queueVars, chanVars, gpuVars, now,
                   game_event, input_state, game_rect, game_state, last_tick, current_time,
                   game_wake, updates, iterations>>

\* Line 304: tx.send(game_state.clone()), in every outer iteration.
H_send ==
    /\ game_pc = "send"
    /\ chan' = send(chan, Snapshot(game_state, 0))
    /\ game_pc' = "wait"
    /\ UNCHANGED <<inputHist, valueVars, render_log, platformVars, queueVars, gpuVars, now,
                   sends, sent_log, published,
                   game_event, input_state, game_rect, game_state, last_tick, current_time,
                   game_wake, updates, iterations>>

\* Lines 306-309 at any reading of the clock: the thread sleeps, or goes round
\* at once when the next tick is within the guard.
H_wait ==
    /\ game_pc = "wait"
    /\ game_pc' \in {"sleep", "lock"}
    /\ UNCHANGED <<inputHist, valueVars, render_log, platformVars, queueVars, chanVars, gpuVars, now,
                   game_event, input_state, game_rect, game_state, last_tick, current_time,
                   game_wake, updates, iterations>>

\* Lines 162-180 at any reading of the clock: the frame is rendered or not,
\* and the thread sleeps or goes round at once.
H_frame ==
    /\ gpu_pc = "frame"
    /\ gpu_pc' \in {"sleep", "lock"}
    /\ UNCHANGED <<inputHist, valueVars, render_log, platformVars, queueVars, gameVars, chanVars, now,
                   gpu_event, game_state_res, sends_seen, gpu_state, applied, last_render,
                   last_fps_print, frames, gpu_wake>>

\* ------------------------------------------------ calls on the player
threadVars == <<platformVars, queueVars, gameVars, chanVars, gpuVars, now, inputHist,
                render_log>>

\* A call of Physics::apply_force on the player's body
P_apply_force(maxCalls) ==
    /\ call.n < maxCalls
    /\ \E force \in Forces :
        /\ player' = [player EXCEPT !.physics = apply_force(@, force)]
        /\ call' = Call("apply_force", call.n + 1, player, player.physics, force, 0, 0, NoRet,
                        InputState_new, VZero, VZero)
    /\ UNCHANGED threadVars

\* A call of Physics::update on the player's body
P_update(maxCalls) ==
    /\ call.n < maxCalls
    /\ \E args \in UpdateArgs :
        /\ player' = [player EXCEPT !.physics = Physics_update(@, args[1], args[2])]
        /\ call' = Call("update", call.n + 1, player, player.physics, VZero, args[1], args[2],
                        Physics_update_ret(player.physics, args[1], args[2]),
                        InputState_new, VZero, VZero)
    /\ UNCHANGED threadVars

\* A call of GameState::update
T_tick(inputs, maxCalls) ==
    /\ call.n < maxCalls
    /\ \E input \in inputs :
        LET delta_t == as_secs_f32(TIME_PER_GAME_TICK)
            handed == body_before_update(player.physics, player.camera.direction, input, delta_t)
        IN  /\ player' = GameState_update(player, input)
            /\ call' = Call("tick", call.n + 1, player, handed, VZero, delta_t, MAX_PLAYER_VEL,
                            Physics_update_ret(handed, delta_t, MAX_PLAYER_VEL), input,
                            lateral_force_applied(player.physics, player.camera.direction,
                                                  input, delta_t),
                            fwd_force_applied(player.physics, player.camera.direction,
                                              input, delta_t))
    /\ UNCHANGED threadVars

\* --------------------------------------------------- calls on rotors
\* The integers a component is drawn from
Components(c) == (-c) .. c

Vectors(c) == { Vec(x, y, z) : x, y, z \in Components(c) }

Rotors(c) == { Rotor_new(s, xy, xz, yz) : s, xy, xz, yz \in Components(c) }

Quaternions(c) == { Quaternion(s, x, y, z) : s, x, y, z \in Components(c) }

\* Rotor::identity().rotate_vector(v)
Rot_identity(c) ==
    /\ call.op = "none"
    /\ \E v \in Vectors(c) :
        call' = [op |-> "identity", n |-> 1, r |-> Rotor_identity, v |-> v,
                 out |-> rotate_vector(Rotor_identity, v)]
    /\ UNCHANGED <<player, threadVars>>

\* r.inverse().rotate_vector(r.rotate_vector(v))
Rot_inverse(c) ==
    /\ call.op = "none"
    /\ \E r \in Rotors(c), v \in Vectors(c) :
        call' = [op |-> "inverse", n |-> 1, r |-> r, v |-> v,
                 inv |-> inverse(r), twice |-> inverse(inverse(r)),
                 mid |-> rotate_vector(r, v),
                 out |-> rotate_vector(inverse(r), rotate_vector(r, v))]
    /\ UNCHANGED <<player, threadVars>>

\* Rotor::from_quat(q).rotate_vector(v)
Rot_from_quat(c) ==
    /\ call.op = "none"
    /\ \E q \in Quaternions(c), v \in Vectors(c) :
        call' = [op |-> "from_quat", n |-> 1, q |-> q, v |-> v, r |-> from_quat(q),
                 out |-> rotate_vector(from_quat(q), v)]
    /\ UNCHANGED <<player, threadVars>>

\* --------------------------------------------------- the two waits
\* Lines 306-309 at the reading at, with the next tick due at due: the
\* remaining time (Instant - Instant saturates) and the sleep requested.
Wait_tick(c) ==
    /\ call.op = "none"
    /\ \E due \in 0..c, at \in 0..c :
          call' = [op |-> "wait_tick", n |-> 1, due |-> due, at |-> at,
                   r |-> SaturatingSub(due, at),
                   request |-> SleepRequest(SaturatingSub(due, at))]
    /\ UNCHANGED <<player, threadVars>>

\* Lines 172-179 at the reading at, with the next frame due at due; the
\* branch is taken when the frame is not due yet.
Wait_frame(c) ==
    /\ call.op = "none"
    /\ \E due \in 0..c, at \in 0..c :
          /\ at < due
          /\ call' = [op |-> "wait_frame", n |-> 1, due |-> due, at |-> at,
                      r |-> due - at, request |-> SleepRequest(due - at)]
    /\ UNCHANGED <<player, threadVars>>

\* ------------------------------------------------------ specification
\* main installs the handles and spawns the two threads.
Startup ==
    \/ M_install_gpu \/ M_install_input \/ M_spawn_gpu \/ M_spawn_game

\* The window procedure.
Wndproc ==
    \/ W_paint \/ W_paint_unlock
    \/ W_size_gpu \/ W_size_gpu_unlock \/ W_size_input \/ W_size_input_unlock
    \/ W_move_gpu \/ W_move_input \/ W_move_recentre \/ W_move_return
    \/ W_keydown \/ W_keyup \/ W_key_unlock

\* The simulation thread, but for its pops and its send.
GameLoop ==
    \/ G_init \/ G_lock \/ G_check \/ G_time \/ G_tick
    \/ G_update \/ G_update_eye \/ G_update_dir \/ G_reset \/ G_wait \/ G_sleep

\* The render thread, but for its pops.
GpuLoop(record) ==
    \/ R_init(record) \/ R_lock \/ R_check \/ R_recv \/ R_recv_next
    \/ R_update_camera \/ R_frame(record) \/ R_sleep

\* The program while no window message arrives: both queues stay empty.
Next ==
    \/ Startup
    \/ GameLoop \/ G_send(MaxSends)
    \/ GpuLoop(FALSE)
    \/ Elapse(ClockStep, MaxNow)

Spec == Init /\ [][Next]_vars

\* The program with window messages.
NextQueues ==
    \/ Startup
    \/ W_enter(QMessages, QMaxMsgs, {"loop"}) \/ Wndproc
    \/ GameLoop \/ G_pop \/ G_event(FALSE) \/ G_send(QMaxSends)
    \/ GpuLoop(FALSE) \/ R_pop \/ R_event
    \/ Elapse(QClockStep, QMaxNow)

SpecQueues == Init /\ [][NextQueues]_vars

\* The window procedure, but for its WM_PAINT arm.
WndprocInput ==
    \/ W_size_gpu \/ W_size_gpu_unlock \/ W_size_input \/ W_size_input_unlock
    \/ W_move_gpu \/ W_move_input \/ W_move_recentre \/ W_move_return
    \/ W_keydown \/ W_keyup \/ W_key_unlock

\* The simulation thread fed by wndproc with keyboard, mouse and resize
\* messages.  The render thread is left at the head of its loop: it shares
\* nothing with InputState, and the events of its queue stay there.
NextInput ==
    \/ Startup \/ R_init(FALSE)
    \/ W_enter(InputMessages, IMaxMsgs, {"loop"}) \/ WndprocInput
    \/ GameLoop \/ G_pop \/ G_event(TRUE) \/ G_send(IMaxSends)
    \/ Elapse(IClockStep, IMaxNow)

SpecInput == Init /\ [][NextInput]_vars

\* Calls on the player, in any order, from any of InitialPlayers.
NextPlayer ==
    \/ P_apply_force(MaxCalls) \/ P_update(MaxCalls) \/ T_tick(TickInputs, MaxCalls)

SpecPlayer == InitPlayer /\ [][NextPlayer]_vars

\* The two loops with the results of render() on record; no window message
\* arrives.
NextRender ==
    \/ Startup
    \/ GameLoop \/ G_send(RMaxSends)
    \/ GpuLoop(TRUE)
    \/ Elapse(RClockStep, RMaxNow)

SpecRender == Init /\ [][NextRender]_vars

\* The drains of the two loops, fed with any event.
NextEvents ==
    \/ Startup
    \/ X_push(AnyEvents, EMaxEvents)
    \/ G_init \/ G_lock \/ G_check \/ G_pop \/ G_event(FALSE)
    \/ R_init(FALSE) \/ R_lock \/ R_check \/ R_pop \/ R_event

SpecEvents == Init /\ [][NextEvents]_vars

\* Ticks that turn the camera, from the player of GameState::new.
NextLook == T_tick(LookInputs, MaxLooks)

SpecLook == Init /\ [][NextLook]_vars

\* One call on a rotor with integer components.
NextRotor ==
    \/ Rot_identity(MaxComponent) \/ Rot_inverse(MaxComponent) \/ Rot_from_quat(MaxComponent)

SpecRotor == Init /\ [][NextRotor]_vars

\* The ticks of a run from GameState::new: the player falls to the ground
\* without input, then every input of PlayInputs may come at every tick.
GroundInputs == IF call.n < FallTicks THEN {InputState_new} ELSE PlayInputs

NextGround == T_tick(GroundInputs, FallTicks + PlayTicks)

SpecGround == Init /\ [][NextGround]_vars

\* One wait of either loop.
NextWait == Wait_tick(MaxWait) \/ Wait_frame(MaxWait)

SpecWait == Init /\ [][NextWait]_vars

\* The messages of the runs explored by SpecRoute: those of QMessages and
\* three more that have no queue arm.
RouteMessages ==
    QMessages \cup { Msg(t, 0, 0, InitialRect, [x |-> 0, y |-> 0]) : t \in RouteTags }

\* The window procedure alone, entered while the window is created, between
\* the two SetWindowLongPtrA calls and from the message loop.
NextRoute ==
    \/ Startup
    \/ W_enter(RouteMessages, RMaxMsgs, {"create", "install_input", "loop"})
    \/ Wndproc

SpecRoute == Init /\ [][NextRoute]_vars

\* The steps of the simulation thread at the channel, but for the return of
\* its sleep.
HandoffGame ==
    \/ G_init \/ G_lock \/ G_check \/ H_ticks(HMaxChan) \/ H_send \/ H_wait

\* The steps of the render thread at the channel.
HandoffGpu ==
    \/ R_init(FALSE) \/ R_lock \/ R_check \/ R_recv \/ R_recv_next \/ R_update_camera
    \/ H_frame \/ R_sleep

NextHandoff ==
    \/ Startup \/ HandoffGame \/ G_sleep \/ HandoffGpu

\* Both threads are scheduled again and again.  thread::sleep returns when the
\* clock says so, and nothing is assumed of the clock: the simulation thread
\* may stay in its sleep for any time.
SpecHandoff ==
    /\ Init /\ [][NextHandoff]_vars
    /\ WF_vars(Startup) /\ WF_vars(HandoffGame) /\ WF_vars(HandoffGpu)

\* The steps of wndproc that acquire a mutex.
WndprocLocks ==
    \/ W_paint \/ W_size_gpu \/ W_size_input \/ W_move_gpu \/ W_move_input
    \/ W_keydown \/ W_keyup

\* The steps of wndproc that acquire none.
WndprocRest ==
    \/ W_paint_unlock \/ W_size_gpu_unlock \/ W_size_input_unlock
    \/ W_move_recentre \/ W_move_return \/ W_key_unlock

\* The steps of the simulation thread between two locks.
LocksGame ==
    \/ G_init \/ G_check \/ G_pop \/ G_event(FALSE) \/ L_game_rest

\* The steps of the render thread between two locks.
LocksGpu ==
    \/ R_init(FALSE) \/ R_check \/ R_pop \/ R_event \/ L_gpu_rest

NextLocks ==
    \/ Startup
    \/ L_dispatch(LockMessages, LMaxQueue) \/ WndprocLocks \/ WndprocRest
    \/ G_lock \/ LocksGame
    \/ R_lock \/ LocksGpu

\* Every thread is scheduled again and again, and a thread blocked in lock()
\* gets the mutex at one of the moments it is free.  Messages may stop
\* arriving.
SpecLocks ==
    /\ Init /\ [][NextLocks]_vars
    /\ WF_vars(Startup) /\ WF_vars(WndprocRest) /\ WF_vars(LocksGame) /\ WF_vars(LocksGpu)
    /\ SF_vars(WndprocLocks) /\ SF_vars(G_lock) /\ SF_vars(R_lock)

\* The steps of wndproc for a key message, once it has the mutex.
KeysWndproc == W_key_unlock

\* The steps of the simulation thread.
KeysGame ==
    \/ G_init \/ G_lock \/ G_check \/ G_pop \/ G_event(TRUE) \/ K_ticks(KMaxSpins)

NextKeys ==
    \/ Startup
    \/ L_dispatch(KeyMessages, KMaxQueue) \/ W_keydown \/ W_keyup \/ KeysWndproc
    \/ KeysGame

\* The simulation thread is scheduled again and again, and wndproc returns
\* once it has pushed.  Messages may stop arriving.
SpecKeys ==
    /\ Init /\ [][NextKeys]_vars
    /\ WF_vars(Startup) /\ WF_vars(KeysWndproc) /\ WF_vars(KeysGame)

\* ------------------------------------------------------------- claims
Range(f) == {f[i] : i \in DOMAIN f}

InitialCamera == get_camera(GameState_new(InitialAspect))

\* Places of the simulation thread between a send and the next catch-up loop.
AfterSend == {"wait", "sleep", "lock", "check", "pop", "event", "time"}

\* Places of a consumer inside its queue drain.
InDrain == {"check", "pop", "event"}

\* Places of wndproc where it waits for the simulation-side queue's mutex.
WaitsForInput == {"size_input", "move_input", "keydown", "keyup"}

\* C1: Handoff freshness.  When the drain hands a snapshot to update_camera,
\* it is the last one sent by the time the drain found the channel empty (the
\* N-th of N sends), whatever is still in the channel was sent later, and
\* outside the drain the backend holds that N-th snapshot.
C1_HandoffFreshness ==
    /\ gpu_pc = "update_camera" =>
          /\ game_state_res.ok
          /\ game_state_res.seq = sends_seen
          /\ \A i \in 1..Len(chan) : chan[i].seq > game_state_res.seq
    /\ gpu_pc \notin {"recv_next", "update_camera"} => applied.seq = sends_seen

\* C1 witness: a drain that received at least two snapshots hands over the last.
C1_Witness ==
    /\ gpu_pc = "update_camera"
    /\ game_state_res.seq >= applied.seq + 2

\* C2: Tick monotonicity.  The tick counter equals the number of calls of
\* GameState::update: one more than the completed calls while a call is past
\* its increment, the completed calls otherwise.
C2_TickMonotonicity ==
    game_state.tick = updates + (IF game_pc \in {"update_eye", "update_dir"} THEN 1 ELSE 0)

\* C2 witness: two calls of update have completed.
C2_Witness == updates >= 2 /\ game_state.tick = 2

\* C3 as stated: every tick value the counter has left was sent.
C3_EveryTickPublishes ==
    \A n \in 1..(game_state.tick - 1) : n \in Range(sent_log)

\* C3 amended: every outer iteration publishes the tick value its catch-up
\* loop ended with: between a send and the next catch-up loop the snapshot sent
\* last carries the current tick counter, and no snapshot carries a tick the
\* counter has not reached.
C3_EveryIterationPublishes ==
    /\ (sends > 0 /\ game_pc \in AfterSend) => sent_log[Len(sent_log)] = game_state.tick
    /\ \A i \in 1..Len(sent_log) : sent_log[i] <= game_state.tick

\* C3 witness: a catch-up loop of two ticks, whose final value was sent.
C3_Witness ==
    /\ game_pc = "wait"
    /\ Len(sent_log) >= 2
    /\ sent_log[Len(sent_log)] = sent_log[Len(sent_log) - 1] + 2

\* C4 as stated: no two snapshots sent carry the same tick counter.
C4_OneSnapshotPerTick ==
    \A i, j \in 1..Len(sent_log) : i # j => sent_log[i] # sent_log[j]

\* C4 amended: a snapshot is sent once per outer iteration, with or without a
\* tick: the number of sends equals the number of catch-up loops completed
\* (less the one whose send is pending), and the tick counters sent never
\* decrease.
C4_OneSnapshotPerIteration ==
    /\ sends = iterations - (IF game_pc = "send" THEN 1 ELSE 0)
    /\ Len(sent_log) = sends
    /\ \A i \in 1..(Len(sent_log) - 1) : sent_log[i] <= sent_log[i + 1]

\* C4 witness: an iteration without a tick has sent the same tick counter again.
C4_Witness ==
    /\ game_pc = "wait"
    /\ Len(sent_log) >= 2
    /\ sent_log[Len(sent_log)] = sent_log[Len(sent_log) - 1]

\* C5: the tick counters of the snapshots applied to the backend never decrease.
C5_AppliedTicksNonDecreasing ==
    [][applied'.tick >= applied.tick]_vars

\* C5 witness: a snapshot of a later tick is about to replace an applied one.
C5_Witness ==
    /\ gpu_pc = "update_camera"
    /\ applied.seq >= 1
    /\ game_state_res.value.tick > applied.tick

\* C6: no torn camera.  The backend's camera is the initial one or the camera
\* of a snapshot sent, and its eye and direction were written by the same
\* completed update.
C6_NoTornCamera ==
    /\ gpu_state.camera \in (published \cup {InitialCamera})
    /\ gpu_state.camera.eye = gpu_state.camera.direction

\* C6 witness: the backend holds a published camera of a tick while the
\* simulation is in the middle of a later update.
C6_Witness ==
    /\ gpu_state.camera.eye >= 1
    /\ game_pc = "update_dir"
    /\ game_state.camera.eye # game_state.camera.direction

\* C7: per queue, the events pushed are the events popped followed by the
\* events still queued, in that order, and no event is pushed twice.
C7_QueueFifo ==
    /\ pushed.gpu = popped.gpu \o gpu_event_queue
    /\ pushed.input = popped.input \o input_event_queue
    /\ \A i, j \in 1..Len(pushed.gpu) : i # j => pushed.gpu[i].id # pushed.gpu[j].id
    /\ \A i, j \in 1..Len(pushed.input) : i # j => pushed.input[i].id # pushed.input[j].id

\* C7 witness: both queues have had two events popped.
C7_Witness ==
    /\ Len(popped.gpu) >= 2
    /\ Len(popped.input) >= 2

\* C8: pop_front is never run on an empty queue, and the expect never fires.
C8_PopNeverOnEmpty ==
    /\ game_pc # "panic"
    /\ gpu_pc # "panic"
    /\ game_pc = "pop" => Len(input_event_queue) > 0
    /\ gpu_pc = "pop" => Len(gpu_event_queue) > 0

\* C8 witness: a consumer is between its check and its pop while wndproc
\* waits to push to the same queue.
C8_Witness ==
    /\ game_pc = "pop"
    /\ main_pc \in WaitsForInput

\* C9 as stated: no mutex is held while a popped event is interpreted.
C9_MutexFreeWhileInterpreting ==
    /\ gpu_pc = "event" => gpu_mutex # "gpu"
    /\ game_pc = "event" => input_mutex # "game"

\* C9 amended: a consumer holds its queue's mutex for the whole drain, the
\* interpretation of every popped event included, and at no other time.
C9_MutexHeldForWholeDrain ==
    /\ gpu_pc \in InDrain <=> gpu_mutex = "gpu"
    /\ game_pc \in InDrain <=> input_mutex = "game"

\* C9 witness: the simulation thread interprets an event, holding the mutex,
\* while wndproc waits for it.
C9_Witness ==
    /\ game_pc = "event"
    /\ input_mutex = "game"
    /\ main_pc \in WaitsForInput

\* Places of wndproc where it waits for the render-side queue's mutex.
WaitsForGpu == {"paint", "size_gpu", "move_gpu"}

\* C10 as stated: wndproc never holds one queue's mutex while it acquires or
\* holds the other's, and holds none when it recentres the cursor.
C10_WndprocOneMutexPerPush ==
    /\ ~(gpu_mutex = "wndproc" /\ input_mutex = "wndproc")
    /\ main_pc \in WaitsForInput => gpu_mutex # "wndproc"
    /\ main_pc = "move_recentre" => (gpu_mutex # "wndproc" /\ input_mutex # "wndproc")

\* ------------------------------------------------ claims on the input
\* Every event the simulation thread has interpreted, in order: those of the
\* ticks past, then those drained since the last tick.
RECURSIVE LogsOf(_)
LogsOf(ticks) ==
    IF Len(ticks) = 0 THEN <<>> ELSE Head(ticks).log \o LogsOf(Tail(ticks))

Drained == LogsOf(seen) \o drain_log

IsKeyDown(ev, vk) ==
    ev.message = "WM_KEYDOWN" /\ ev.data.variant = "KeyDownData" /\ ev.data.wparam = vk

IsKeyUp(ev, vk) ==
    ev.message = "WM_KEYUP" /\ ev.data.variant = "KeyUpData" /\ ev.data.wparam = vk

IsMouseMove(ev) ==
    ev.message = "WM_MOUSEMOVE" /\ ev.data.variant = "MouseMoveData"

\* The 'this key was already held' indicator of a key-down event: bit 30 of
\* its lParam.
CarriesRepeatIndicator(ev) == (ev.data.lparam \div 1073741824) % 2 = 1

\* The offset of a mouse-move event from the centre of the rectangle in force.
OffsetX(e) == e.event.data.pt.x - TruncDiv(e.rect.right + e.rect.left, 2)

OffsetY(e) == e.event.data.pt.y - TruncDiv(e.rect.bottom + e.rect.top, 2)

QuarterWidth(rect) == TruncDiv(rect.right - rect.left, 4)

QuarterHeight(rect) == TruncDiv(rect.bottom - rect.top, 4)

\* A mouse-move event inside the central box of the rectangle in force.
Accepted(e) ==
    /\ IsMouseMove(e.event)
    /\ Abs(OffsetX(e)) < QuarterWidth(e.rect)
    /\ Abs(OffsetY(e)) < QuarterHeight(e.rect)

RECURSIVE SumX(_)
SumX(log) ==
    IF Len(log) = 0 THEN 0
    ELSE (IF Accepted(Head(log)) THEN OffsetX(Head(log)) ELSE 0) + SumX(Tail(log))

RECURSIVE SumY(_)
SumY(log) ==
    IF Len(log) = 0 THEN 0
    ELSE (IF Accepted(Head(log)) THEN OffsetY(Head(log)) ELSE 0) + SumY(Tail(log))

RECURSIVE SumOfBounds(_)
SumOfBounds(log) ==
    IF Len(log) = 0 THEN 0
    ELSE (IF Accepted(Head(log)) THEN QuarterWidth(Head(log).rect) - 1 ELSE 0)
         + SumOfBounds(Tail(log))

NumAccepted(log) == Cardinality({i \in 1..Len(log) : Accepted(log[i])})

JumpDownIn(log) == \E i \in 1..Len(log) : IsKeyDown(log[i].event, VK_SPACE)

\* Places of the simulation thread where InputState holds what was drained
\* since the last tick (update has not been entered).
BetweenTicks == {"lock", "check", "pop", "event", "time", "tick", "send", "wait", "sleep"}

\* C11: key-edge suppression.  A key-down of left (or right) that carries the
\* repeat indicator leaves the flag as it was, and a key-up of left (or right)
\* leaves the flag false, with or without the indicator.
C11_KeyEdgeSuppression ==
    \A i \in 1..Len(Drained) :
        LET e == Drained[i]
        IN  /\ (IsKeyDown(e.event, VK_LEFT) /\ CarriesRepeatIndicator(e.event))
                 => e.after.left = e.before.left
            /\ (IsKeyDown(e.event, VK_RIGHT) /\ CarriesRepeatIndicator(e.event))
                 => e.after.right = e.before.right
            /\ IsKeyUp(e.event, VK_LEFT) => ~e.after.left
            /\ IsKeyUp(e.event, VK_RIGHT) => ~e.after.right

\* C12: every key-down of forward, backward or jump sets its flag, with or
\* without the repeat indicator, and no key-up changes the jump flag.
C12_KeyDownAlwaysApplies ==
    \A i \in 1..Len(Drained) :
        LET e == Drained[i]
        IN  /\ IsKeyDown(e.event, VK_UP) => e.after.forward
            /\ IsKeyDown(e.event, VK_DOWN) => e.after.backward
            /\ IsKeyDown(e.event, VK_SPACE) => e.after.jump
            /\ e.event.message = "WM_KEYUP" => e.after.jump = e.before.jump

\* C12 witness: two ticks saw jump = true, the second one re-armed by an
\* auto-repeated key-down after the reset of the first, with no key-up between.
C12_Witness ==
    /\ Len(seen) >= 2
    /\ seen[1].input.jump
    /\ seen[2].input.jump
    /\ Len(seen[2].log) = 1
    /\ IsKeyDown(seen[2].log[1].event, VK_SPACE)
    /\ CarriesRepeatIndicator(seen[2].log[1].event)
    /\ ~seen[2].log[1].before.jump

\* C13: post-update reset.  The step after every tick zeroes the mouse deltas
\* and the jump flag and leaves the four level flags; a level flag goes from
\* true to false only when a key-up of its key is interpreted.
C13_PostUpdateReset ==
    [][ /\ (game_pc = "update_dir" /\ game_pc' # "update_dir") => game_pc' = "reset"
        /\ (game_pc = "reset" /\ game_pc' # "reset") =>
              /\ input_state'.mouse_x = 0
              /\ input_state'.mouse_y = 0
              /\ ~input_state'.jump
              /\ input_state'.forward = input_state.forward
              /\ input_state'.backward = input_state.backward
              /\ input_state'.left = input_state.left
              /\ input_state'.right = input_state.right
        /\ (input_state.forward /\ ~input_state'.forward) =>
              (game_pc = "event" /\ IsKeyUp(game_event, VK_UP))
        /\ (input_state.backward /\ ~input_state'.backward) =>
              (game_pc = "event" /\ IsKeyUp(game_event, VK_DOWN))
        /\ (input_state.left /\ ~input_state'.left) =>
              (game_pc = "event" /\ IsKeyUp(game_event, VK_LEFT))
        /\ (input_state.right /\ ~input_state'.right) =>
              (game_pc = "event" /\ IsKeyUp(game_event, VK_RIGHT))
      ]_vars

\* C13 witness: a key pressed before the first tick is still held after the
\* reset of the second, with the one-shot fields cleared.
C13_Witness ==
    /\ game_pc = "tick"
    /\ Len(seen) = 2
    /\ seen[1].input.forward /\ seen[1].input.jump
    /\ Len(seen[2].log) = 0
    /\ input_state.forward
    /\ ~input_state.jump

\* C14: one-shot input is consumed by exactly one tick.  Every tick sees as
\* mouse deltas the sum of the offsets of the mouse-move events accepted since
\* the tick before, and sees jump exactly when a jump key-down was drained
\* since the tick before; between ticks InputState holds the same sums.
C14_OneShotConsumedOnce ==
    /\ \A i \in 1..Len(seen) :
          /\ seen[i].input.mouse_x = SumX(seen[i].log)
          /\ seen[i].input.mouse_y = SumY(seen[i].log)
          /\ seen[i].input.jump = JumpDownIn(seen[i].log)
    /\ game_pc \in BetweenTicks =>
          /\ input_state.mouse_x = SumX(drain_log)
          /\ input_state.mouse_y = SumY(drain_log)
          /\ input_state.jump = JumpDownIn(drain_log)

\* C14 witness: a tick saw the sum of two accepted mouse moves that were
\* drained in two different outer iterations, the first of them without a tick.
C14_Witness ==
    \E i \in 1..Len(seen) :
        /\ Len(seen[i].log) = 2
        /\ Accepted(seen[i].log[1]) /\ Accepted(seen[i].log[2])
        /\ seen[i].log[1].iteration < seen[i].log[2].iteration
        /\ seen[i].input.mouse_x = 20
        /\ seen[i].input.mouse_y = -10

\* The rule of acceptance of C15: a mouse move outside the central box leaves
\* InputState unchanged, one inside adds its offset.
MouseMoveRule ==
    \A i \in 1..Len(Drained) :
        LET e == Drained[i]
        IN  IsMouseMove(e.event) =>
                IF Accepted(e)
                THEN e.after = [e.before EXCEPT !.mouse_x = @ + OffsetX(e),
                                                !.mouse_y = @ + OffsetY(e)]
                ELSE e.after = e.before

\* C15 as stated: the rule of acceptance, and between two ticks |mouse_x| is at
\* most the number of accepted events times (width / 4 - 1), the width being
\* that of the current game rectangle.
C15_BoundByCurrentWidth ==
    /\ MouseMoveRule
    /\ game_pc \in BetweenTicks =>
          Abs(input_state.mouse_x) <= NumAccepted(drain_log) * (QuarterWidth(game_rect) - 1)

\* C15 amended: the rule of acceptance, and between two ticks |mouse_x| is at
\* most the sum, over the accepted events, of (width / 4 - 1) for the width of
\* the game rectangle in force when the event was interpreted.
C15_BoundByWidthsInForce ==
    /\ MouseMoveRule
    /\ game_pc \in BetweenTicks => Abs(input_state.mouse_x) <= SumOfBounds(drain_log)

\* C15 witness: a mouse move accepted in the initial window, then a resize to
\* the small window, both drained before the same tick.
C15_Witness ==
    /\ game_pc \in BetweenTicks
    /\ Len(drain_log) = 2
    /\ Accepted(drain_log[1])
    /\ drain_log[2].event.message = "WM_SIZE"
    /\ input_state.mouse_x = 10


\* ------------------------------------------------ claims on the player
\* The velocity Physics::update compares with max_vel: velocity + accel * delta_t
Stepped(body, delta_t) == VAdd(body.velocity, delta_v(body, delta_t))

\* |v| <= m up to rounding: two units of 0.001 /s
WithinSpeed(v, m) == MagnitudeSq(v) <= (m + 2) * (m + 2)

AfterUpdateCall == call.op = "update" /\ ~call.before.physics.nan

AfterTick == call.op = "tick" /\ ~call.before.physics.nan

\* C16: right after a call of Physics::update with max_vel >= 0 the magnitude
\* of the velocity is at most max_vel, up to rounding; after a tick of the
\* game, jump impulse included, the speed of the player is at most 10.
C16_VelocityClamp ==
    /\ (AfterUpdateCall /\ call.max_vel >= 0)
           => WithinSpeed(player.physics.velocity, call.max_vel)
    /\ AfterTick => WithinSpeed(player.physics.velocity, MAX_PLAYER_VEL)

\* A tick in which the player, at full speed on the ground, jumped: the
\* velocity handed to Physics::update exceeded 10 and the clamp brought it back.
C16_Witness ==
    /\ AfterTick
    /\ call.input.jump
    /\ call.before.physics.position.y <= JUMP_THRESHOLD
    /\ call.handed.velocity.y = call.before.physics.velocity.y + JUMP_IMPULSE
    /\ ~WithinSpeed(Stepped(call.handed, call.delta_t), MAX_PLAYER_VEL)
    /\ WithinSpeed(player.physics.velocity, MAX_PLAYER_VEL)
    /\ player.physics.velocity.y > 0

\* C17: a call of Physics::update with a negative max_vel clamps nothing: the
\* velocity becomes old velocity + accel * delta_t and the position advances
\* by the trapezoidal delta_pos.
C17_NegativeMaxVelNeverClamps ==
    (AfterUpdateCall /\ call.max_vel < 0) =>
        /\ ~player.physics.nan
        /\ player.physics.velocity = Stepped(call.handed, call.delta_t)
        /\ player.physics.position
               = VAdd(call.handed.position, delta_pos(call.handed, call.delta_t))

Cross(a, b) == Vec(a.y * b.z - a.z * b.y, a.z * b.x - a.x * b.z, a.x * b.y - a.y * b.x)

\* a points the way b does, up to the rounding of a's components
SameDirection(a, b) ==
    /\ Dot(a, b) >= 0
    /\ \A c \in {Cross(a, b).x, Cross(a, b).y, Cross(a, b).z} :
           Abs(c) <= 2 * (magnitude(b) + 1)

\* |v| = m up to rounding
HasMagnitude(v, m) ==
    /\ WithinSpeed(v, m)
    /\ m >= 2 => MagnitudeSq(v) >= (m - 2) * (m - 2)

\* The clamp of the claim: max_vel >= 0 and |velocity + accel * delta_t| > max_vel
ClampedCall ==
    /\ AfterUpdateCall
    /\ call.max_vel >= 0
    /\ MagnitudeSq(Stepped(call.handed, call.delta_t)) > call.max_vel * call.max_vel

\* C18: when Physics::update clamps (max_vel >= 0), the new velocity points
\* the way the unclamped one does and has magnitude max_vel, and the position
\* advances by new velocity * delta_t; clamped or not, the value returned is
\* the new position minus the old one.
C18_ClampedIntegration ==
    /\ ClampedCall =>
           /\ SameDirection(player.physics.velocity, Stepped(call.handed, call.delta_t))
           /\ HasMagnitude(player.physics.velocity, call.max_vel)
           /\ player.physics.position
                  = VAdd(call.handed.position, VScale(call.delta_t, player.physics.velocity))
    /\ (AfterUpdateCall /\ ~player.physics.nan) =>
           call.ret.v = VSub(player.physics.position, call.handed.position)

\* A clamped call at max_vel = 10 where the Euler step of the clamped
\* velocity differs from the trapezoidal delta_pos, and is what was returned.
C18_Witness ==
    /\ ClampedCall
    /\ call.max_vel = MAX_PLAYER_VEL
    /\ call.ret.v = VScale(call.delta_t, player.physics.velocity)
    /\ call.ret.v # delta_pos(call.handed, call.delta_t)
    /\ player.physics.velocity.x # 0
    /\ player.physics.velocity.y # 0

\* The scenario: a body at rest with mass 1 and the acceleration of gravity
\* was given apply_force((6, 0, 0)), then update(0.01, 10).
ScenarioCall ==
    /\ call.op = "update"
    /\ call.n = 2
    /\ call.handed = [Physics_new EXCEPT !.accel = Vec(PLAYER_FORCE, GRAVITY, 0)]
    /\ call.delta_t = 1
    /\ call.max_vel = MAX_PLAYER_VEL

\* Twice delta_t * (v_old + 0.5 * accel * delta_t), computed from the body
\* the call found.
TwiceTrapezoid(body, delta_t) ==
    Vec(delta_t * (2 * body.velocity.x + delta_t * body.accel.x),
        delta_t * (2 * body.velocity.y + delta_t * body.accel.y),
        delta_t * (2 * body.velocity.z + delta_t * body.accel.z))

\* Physics::update ran, alone or within a tick, and did not clamp.
UnclampedCall ==
    /\ call.op \in {"update", "tick"}
    /\ ~call.handed.nan
    /\ call.max_vel >= 0
    /\ MagnitudeSq(Stepped(call.handed, call.delta_t)) <= call.max_vel * call.max_vel

\* C19: the scenario gives velocity (0.06, -0.09, 0) and returns
\* (0.0003, -0.00045, 0); whenever Physics::update does not clamp, the value
\* returned is delta_t * (v_old + 0.5 * accel * delta_t), up to half a unit.
C19_UnclampedIntegration ==
    /\ ScenarioCall =>
           /\ player.physics.velocity = Vec(60, -90, 0)
           /\ call.ret.v = Vec(30, -45, 0)
    /\ UnclampedCall =>
           LET twice == TwiceTrapezoid(call.handed, call.delta_t)
           IN  /\ Abs(2 * call.ret.v.x - twice.x) <= 1
               /\ Abs(2 * call.ret.v.y - twice.y) <= 1
               /\ Abs(2 * call.ret.v.z - twice.z) <= 1

\* The scenario happened: the body went from rest to the scenario's velocity.
C19_Witness ==
    /\ ScenarioCall
    /\ UnclampedCall
    /\ call.before.physics.velocity = VZero
    /\ player.physics.position = Vec(30, -45, 0)

\* The force a tick must apply along an axis, given the two keys of that
\* axis: the damping term when both or neither is held, else the raw force,
\* with the sign of the key held.
ForceFor(plus, minus, axis) ==
    IF plus = minus
    THEN damping_force(call.before.physics, axis, call.delta_t)
    ELSE IF plus THEN player_force(axis) ELSE VScale(-1, player_force(axis))

\* C20: in a tick the force applied along the forward axis is the damping
\* term when forward and backward are both held or both released, and the
\* raw forward force, + or -, exactly when one of them is held; the same for
\* right and left along the lateral axis.  These two forces and gravity make
\* the acceleration of the body handed to Physics::update.
C20_DampingBranchSelection ==
    AfterTick =>
        /\ call.forward = ForceFor(call.input.forward, call.input.backward,
                                   fwd_axis(call.before.camera.direction))
        /\ call.lateral = ForceFor(call.input.right, call.input.left,
                                   lateral_axis(call.before.camera.direction))
        /\ call.handed.accel = VAdd(Vec(0, GRAVITY, 0), VAdd(call.lateral, call.forward))

\* A tick of a moving player with forward and backward both held and only
\* right held: the forward force was the damping term, not the raw force,
\* and the lateral force was the raw one.
C20_Witness ==
    /\ AfterTick
    /\ call.input.forward /\ call.input.backward
    /\ call.input.right /\ ~call.input.left
    /\ call.forward # VZero
    /\ call.forward # player_force(fwd_axis(call.before.camera.direction))
    /\ call.forward # VScale(-1, player_force(fwd_axis(call.before.camera.direction)))
    /\ Dot(call.forward, call.before.physics.velocity) < 0
    /\ call.lateral = player_force(lateral_axis(call.before.camera.direction))
    /\ call.lateral # VZero

\* ------------------------------------------------- claims on rotors
\* C22: Rotor::identity().rotate_vector(v) = v, component by component.
C22_RotorIdentity ==
    call.op = "identity" => call.out = call.v

\* The identity rotor turned a vector with three different components.
C22_Witness ==
    /\ call.op = "identity"
    /\ call.r = Rotor_new(1, 0, 0, 0)
    /\ call.v = Vec(1, -2, 2)
    /\ call.out = Vec(1, -2, 2)

\* The squared norm of a rotor
NormSq(r) == r.s * r.s + r.xy * r.xy + r.xz * r.xz + r.yz * r.yz

\* C23: inverse() keeps s and negates xy, xz and yz, so that inverting twice
\* gives the rotor back; for a rotor of squared norm n,
\* r.inverse().rotate_vector(r.rotate_vector(v)) = n * n * v, which is v for
\* a rotor of unit norm.
C23_RotorInverse ==
    call.op = "inverse" =>
        /\ call.inv = [s |-> call.r.s, xy |-> -call.r.xy, xz |-> -call.r.xz, yz |-> -call.r.yz]
        /\ call.twice = call.r
        /\ call.out = VScale(NormSq(call.r) * NormSq(call.r), call.v)
        /\ NormSq(call.r) = 1 => call.out = call.v

\* A rotor of unit norm that is not the identity turned a vector away and
\* its inverse turned it back.
C23_Witness ==
    /\ call.op = "inverse"
    /\ NormSq(call.r) = 1
    /\ call.r.xy # 0
    /\ call.v = Vec(1, 2, -1)
    /\ call.mid # call.v
    /\ call.out = call.v

\* The Hamilton product of two quaternions
QMul(a, b) ==
    [s |-> a.s * b.s - a.v.x * b.v.x - a.v.y * b.v.y - a.v.z * b.v.z,
     v |-> Vec(a.s * b.v.x + a.v.x * b.s + a.v.y * b.v.z - a.v.z * b.v.y,
               a.s * b.v.y - a.v.x * b.v.z + a.v.y * b.s + a.v.z * b.v.x,
               a.s * b.v.z + a.v.x * b.v.y - a.v.y * b.v.x + a.v.z * b.s)]

QConj(q) == [s |-> q.s, v |-> VScale(-1, q.v)]

\* The vector part of q * v * conj(q)
Conjugation(q, v) == QMul(QMul(q, [s |-> 0, v |-> v]), QConj(q)).v

\* C24: from_quat(q) = (s, xy = -z, xz = y, yz = -x), and
\* from_quat(q).rotate_vector(v) is the vector part of q * v * conj(q).
C24_RotorMatchesQuaternion ==
    call.op = "from_quat" =>
        /\ call.r = [s |-> call.q.s, xy |-> -call.q.v.z, xz |-> call.q.v.y, yz |-> -call.q.v.x]
        /\ call.out = Conjugation(call.q, call.v)

\* A quaternion with four different components turned a vector that lies
\* along none of the axes.
C24_Witness ==
    /\ call.op = "from_quat"
    /\ call.q = [s |-> 2, v |-> Vec(1, -1, -2)]
    /\ call.v = Vec(1, 2, -1)
    /\ call.out = Conjugation(call.q, call.v)
    /\ call.out # VScale(10, call.v)

LatestRender == render_log'[Len(render_log')]

RenderCalled == Len(render_log') = Len(render_log) + 1

\* C25: a failing render() is swallowed.  Whatever render() returns, the
\* render thread goes on to the head of its loop, the backend is left as it
\* was, last_render takes the clock reading and frames is incremented; and a
\* pass of the loop that finds the frame due calls render() whatever the
\* previous call returned, never sooner than a frame after it.
C25_FailedRenderSwallowed ==
    [][ /\ RenderCalled =>
            /\ gpu_pc' = "lock"
            /\ gpu_state' = gpu_state
            /\ LatestRender.at = now
            /\ last_render' = now
            /\ gpu_pc = "frame" => frames' = FramesAfterPrint(now) + 1
            /\ render_log # <<>> =>
                  now >= render_log[Len(render_log)].at + MIN_TIME_PER_RENDER_FRAME
        /\ (gpu_pc = "frame" /\ gpu_pc' # "frame"
              /\ now >= last_render + MIN_TIME_PER_RENDER_FRAME) => RenderCalled
      ]_vars

\* A render() failed at the second call, was called again a frame later, and
\* both calls were counted.
C25_Witness ==
    /\ Len(render_log) >= 3
    /\ render_log[2].result = "Lost"
    /\ render_log[3].at >= render_log[2].at + MIN_TIME_PER_RENDER_FRAME
    /\ frames = 2
    /\ gpu_pc \notin {"panic", "unspawned", "init"}

\* C27: by the clock readings of the render loop, two consecutive calls of
\* render(), the first one included, are at least MIN_TIME_PER_RENDER_FRAME
\* apart.
C27_RenderRateBound ==
    \A i \in 1..(Len(render_log) - 1) :
        render_log[i + 1].at - render_log[i].at >= MIN_TIME_PER_RENDER_FRAME

\* Three calls at the highest rate, and a run where the second call is late.
C27_Witness ==
    /\ Len(render_log) = 3
    /\ render_log[2].at - render_log[1].at = MIN_TIME_PER_RENDER_FRAME
    /\ render_log[3].at - render_log[2].at = MIN_TIME_PER_RENDER_FRAME

\* ------------------------------------------ claims on dropped events
\* The EventData each arm of the two matches binds (lines 125-149, 194-289).
Expected(message) ==
    CASE message = "WM_KEYDOWN" -> "KeyDownData"
      [] message = "WM_KEYUP" -> "KeyUpData"
      [] message = "WM_MOUSEMOVE" -> "MouseMoveData"
      [] message = "WM_SIZE" -> "ResizeData"
      [] message = "WM_PAINT" -> "EmptyData"
      [] OTHER -> "none"

\* The messages the simulation thread's match has an arm for.
GameHandles == {"WM_KEYDOWN", "WM_KEYUP", "WM_MOUSEMOVE", "WM_SIZE"}

\* The messages the render thread's match has an arm for.
GpuHandles == {"WM_MOUSEMOVE", "WM_PAINT", "WM_SIZE"}

\* The event's payload is not the one of its message, or the consumer has no
\* arm for its message.
Stray(ev, handles) ==
    ev.message \notin handles \/ ev.data.variant # Expected(ev.message)

\* C26: an event whose payload does not match its message, or whose message
\* the consumer does not handle, is removed from the queue and has no effect
\* on InputState, the game rectangle, the GameState and the backend, in the
\* simulation thread's drain and in the render thread's.
C26_StrayEventDropped ==
    [][ /\ (game_pc = "pop" /\ game_pc' = "event" /\ Stray(Head(input_event_queue), GameHandles)) =>
            /\ game_event' = Head(input_event_queue)
            /\ input_event_queue' = Tail(input_event_queue)
        /\ (game_pc = "event" /\ game_pc' # "event" /\ Stray(game_event, GameHandles)) =>
            /\ input_state' = input_state /\ game_rect' = game_rect
            /\ game_state' = game_state /\ gpu_state' = gpu_state
            /\ input_event_queue' = input_event_queue
            /\ game_pc' = "check"
        /\ (gpu_pc = "pop" /\ gpu_pc' = "event" /\ Stray(Head(gpu_event_queue), GpuHandles)) =>
            /\ gpu_event' = Head(gpu_event_queue)
            /\ gpu_event_queue' = Tail(gpu_event_queue)
        /\ (gpu_pc = "event" /\ gpu_pc' # "event" /\ Stray(gpu_event, GpuHandles)) =>
            /\ input_state' = input_state /\ game_rect' = game_rect
            /\ game_state' = game_state /\ gpu_state' = gpu_state
            /\ gpu_event_queue' = gpu_event_queue
            /\ gpu_pc' = "check"
      ]_vars

\* Both drains have handled a resize and then a WM_KEYDOWN that carries
\* MouseMoveData: the rectangle, the aspect ratio and the surface are those
\* of the resize, InputState and the background colour are the initial ones.
C26_Witness ==
    /\ Len(popped.input) = 2 /\ Len(popped.gpu) = 2
    /\ game_pc = "check" /\ gpu_pc = "check"
    /\ popped.input[1].message = "WM_SIZE" /\ popped.input[1].data.variant = "ResizeData"
    /\ popped.input[2].message = "WM_KEYDOWN" /\ popped.input[2].data.variant = "MouseMoveData"
    /\ popped.gpu = popped.input
    /\ input_event_queue = <<>> /\ gpu_event_queue = <<>>
    /\ game_rect = Rect(1920, 1080)
    /\ game_state.camera.aspect = <<1920, 1080>>
    /\ input_state = InputState_new
    /\ gpu_state.width = 1920
    /\ gpu_state.background_color = [x |-> 0, y |-> 0]

\* ------------------------------- claims on the simulation thread's loop
\* The steps of one outer iteration of the simulation thread, in order:
\* the drain, the reading of the clock, the tick loop, the send, the idling.
PhaseOrder ==
    { <<"lock", "check">>, <<"check", "pop">>, <<"pop", "event">>, <<"event", "check">>,
      <<"check", "time">>, <<"time", "tick">>,
      <<"tick", "update">>, <<"update", "update_eye">>, <<"update_eye", "update_dir">>,
      <<"update_dir", "reset">>, <<"reset", "tick">>,
      <<"tick", "send">>, <<"send", "wait">>,
      <<"wait", "sleep">>, <<"wait", "lock">>, <<"sleep", "lock">> }

InTickLoop == {"tick", "update", "update_eye", "update_dir", "reset"}

\* C28: in every outer iteration the simulation thread first empties its queue
\* (the queue is empty when the drain ends), then runs the tick loop, then
\* sends exactly one snapshot, then idles; InputState is written by the drain
\* and by the reset after a tick only, so no event is applied between two
\* ticks of one catch-up loop or between the last tick and the send.
C28_PhaseOrder ==
    [][ /\ (game_pc' # game_pc /\ game_pc \notin {"unspawned", "init"}) =>
              <<game_pc, game_pc'>> \in PhaseOrder
        /\ (game_pc = "check" /\ game_pc' = "time") =>
              input_event_queue = <<>> /\ input_event_queue' = <<>>
        /\ (input_state' # input_state) => game_pc \in {"event", "reset"}
        /\ (game_pc \in InTickLoop /\ game_pc' # game_pc) =>
              /\ game_pc' \in InTickLoop \cup {"send"}
              /\ drain_log' = drain_log \/ game_pc = "update"
              /\ popped' = popped
        /\ (sends' # sends) =>
              sends' = sends + 1 /\ game_pc = "send" /\ game_pc' = "wait"
        /\ (game_pc' # "send") => sends' = iterations'
        /\ (game_pc' = "send") => sends' + 1 = iterations'
      ]_vars

\* The iteration just completed drained an event, ran two ticks and sent its
\* snapshot; the thread idles.
C28_Witness ==
    /\ game_pc = "wait"
    /\ Len(seen) >= 2
    /\ seen[Len(seen)].iteration = iterations - 1
    /\ seen[Len(seen) - 1].iteration = iterations - 1
    /\ Len(seen[Len(seen) - 1].log) >= 1
    /\ seen[Len(seen) - 1].log[Len(seen[Len(seen) - 1].log)].iteration = iterations - 1
    /\ sends = iterations

\* The tick counter of the snapshot sent by the previous iteration: the number
\* of updates before the catch-up loop in progress.
TicksBefore == IF sent_log = <<>> THEN 0 ELSE sent_log[Len(sent_log)]

\* C29: the catch-up loop compares one reading of the clock; it runs
\* floor((current_time - last_tick) / TICK) updates, each advancing last_tick
\* by TICK, so that last_tick is the start time (0) plus the tick counter
\* times TICK, and at the exit of the loop 0 <= current_time - last_tick < TICK.
C29_FixedTickCatchUp ==
    [][ /\ (last_tick' # last_tick) =>
              /\ last_tick' = last_tick + TIME_PER_GAME_TICK
              /\ game_pc = "tick" /\ game_pc' = "update"
        /\ (game_pc \in InTickLoop /\ game_pc' \in InTickLoop) => current_time' = current_time
        /\ last_tick' = TIME_PER_GAME_TICK *
                            (game_state'.tick + (IF game_pc' = "update" THEN 1 ELSE 0))
        /\ (game_pc = "tick" /\ game_pc' = "send") =>
              /\ 0 <= current_time - last_tick
              /\ current_time - last_tick < TIME_PER_GAME_TICK
              /\ game_state.tick - TicksBefore =
                    (current_time - TIME_PER_GAME_TICK * TicksBefore) \div TIME_PER_GAME_TICK
      ]_vars

\* A catch-up loop of two updates has ended with the clock reading two units
\* past the last tick, in an iteration that is not the first.
C29_Witness ==
    /\ game_pc = "send"
    /\ sent_log # <<>>
    /\ game_state.tick - TicksBefore = 2
    /\ current_time - last_tick = 2

\* Two updates of one catch-up loop: the earlier and the later.
SameCatchUp(i, j) == i < j /\ seen[i].iteration = seen[j].iteration

SameLevelFlags(a, b) ==
    /\ a.forward = b.forward /\ a.backward = b.backward
    /\ a.left = b.left /\ a.right = b.right

AfterWait == call.op \in {"wait_tick", "wait_frame"}

\* C31: with r the time remaining until the next tick (frame) is due, a
\* sleep is requested exactly when r > 1.5 ms; the sleep requested is
\* floor(r in ms) - 1 milliseconds, which is not negative, is shorter than r
\* and ends 1 ms or more before the due time; an overdue tick leaves r = 0
\* and requests no sleep.
C31_IdleWaitRule ==
    AfterWait =>
        /\ (call.request >= 0) <=> (call.r > SLEEP_GUARD)
        /\ call.at >= call.due => (call.r = 0 /\ call.request < 0)
        /\ call.request >= 0 =>
              /\ as_millis(call.r) - 1 >= 0
              /\ as_millis(call.request) = as_millis(call.r) - 1
              /\ call.request = from_millis(as_millis(call.request))
              /\ call.request < call.r
              /\ call.at + call.request + from_millis(1) <= call.due

\* The tick is due in 2.5 ms: a sleep of 1 ms is requested.
C31_Witness ==
    /\ call.op = "wait_tick"
    /\ call.r = 5
    /\ call.request = 2

\* ------------------------------------------------ claims on the tick
\* The delta_t of a tick.
TickDelta == as_secs_f32(TIME_PER_GAME_TICK)

\* The body as Physics::update left it in the latest tick, before the ground
\* clamp.
Integrated == Physics_update(call.handed, TickDelta, MAX_PLAYER_VEL)

BodyBefore == call.before.physics

\* C32: the jump impulse is added to the vertical velocity in a tick exactly
\* when input.jump is set and the body starts the tick at y <= -4.999; a
\* jump asked for above that height adds nothing, and the tick leaves the
\* player as the same tick without the request would.
C32_JumpGating ==
    AfterTick =>
        /\ (call.input.jump /\ BodyBefore.position.y <= JUMP_THRESHOLD) =>
              call.handed.velocity = VAdd(BodyBefore.velocity, Vec(0, JUMP_IMPULSE, 0))
        /\ ~(call.input.jump /\ BodyBefore.position.y <= JUMP_THRESHOLD) =>
              call.handed.velocity = BodyBefore.velocity
        /\ (call.input.jump /\ BodyBefore.position.y > JUMP_THRESHOLD) =>
              player = GameState_update(call.before, [call.input EXCEPT !.jump = FALSE])

\* The body rises from a jump off the ground; a second jump is asked for in
\* the air and the body only loses the speed gravity takes.
C32_Witness ==
    /\ AfterTick
    /\ call.input.jump
    /\ BodyBefore.position.y > JUMP_THRESHOLD
    /\ BodyBefore.velocity.y > 0
    /\ player.physics.velocity.y = BodyBefore.velocity.y + GRAVITY * TickDelta

\* C33: after every tick the body is at y >= -5; a tick whose integration
\* leaves y < -5 ends with y = -5, a vertical velocity of 0, the horizontal
\* velocity and position of the integration, and the eye 0.4 above the body.
C33_GroundClamp ==
    AfterTick =>
        /\ player.physics.position.y >= GROUND_Y
        /\ Integrated.position.y < GROUND_Y =>
              /\ player.physics.position = [Integrated.position EXCEPT !.y = GROUND_Y]
              /\ player.physics.velocity = [Integrated.velocity EXCEPT !.y = 0]
              /\ player.camera.eye =
                    VAdd(player.physics.position, Vec(0, CAMERA_PHYSICS_OFFSET, 0))
        /\ Integrated.position.y >= GROUND_Y => player.physics = Integrated

\* The body lands from the air while it moves forward.
C33_Witness ==
    /\ AfterTick
    /\ BodyBefore.position.y > GROUND_Y
    /\ Integrated.position.y < GROUND_Y
    /\ Integrated.velocity.y < 0
    /\ player.physics.velocity.z # 0
    /\ player.physics.velocity.y = 0

\* C34: the acceleration Physics::update is given in a tick is gravity plus
\* the two forces of that tick over the mass, whatever acceleration the tick
\* before left in the body.
C34_ForcesDoNotCarryOver ==
    AfterTick =>
        call.handed.accel =
            VAdd(Vec(0, GRAVITY, 0),
                 VAdd(VRoundDiv(call.lateral, BodyBefore.mass),
                      VRoundDiv(call.forward, BodyBefore.mass)))

\* The tick before pushed the body forward; this one pushes it to the right.
C34_Witness ==
    /\ AfterTick
    /\ BodyBefore.accel.z = -PLAYER_FORCE
    /\ call.input.right /\ ~call.input.forward
    /\ call.handed.accel.x # 0
    /\ call.handed.accel.z # -PLAYER_FORCE

\* C36: after GameState::new and after every tick the eye is 0.4 above the
\* body, whether or not the tick clamped the velocity or met the ground.
C36_EyeBodyLockstep ==
    player.camera.eye = VAdd(player.physics.position, Vec(0, CAMERA_PHYSICS_OFFSET, 0))

\* A tick that clamped the velocity and met the ground.
C36_Witness ==
    /\ AfterTick
    /\ clamp_taken(Stepped(call.handed, TickDelta), MAX_PLAYER_VEL)
    /\ Integrated.position.y < GROUND_Y
    /\ player.camera.eye.y = GROUND_Y + CAMERA_PHYSICS_OFFSET

\* ------------------------------------------- claims on the look's branch
DirectionBefore == call.before.camera.direction

\* The tentatively pitched, normalized direction of the latest tick.
Pitched == new_vertical(DirectionBefore, call.input)

\* Two components equal to a unit of the direction's fixed point, the
\* rounding of one normalization.
Near(a, b) == Abs(a - b) <= 1

\* C35: if the pitched direction has |y| > 1 - POLAR_THRESHOLD, the new
\* direction is the yaw of the old direction, normalized, and has the
\* vertical component of the old normalized direction; otherwise it is the
\* yaw of the pitched direction, normalized, and has its vertical component.
\* The yaw multiplies the vertical component of its argument by the squared
\* norm of the rotor, that is leaves it unchanged.  Without mouse movement
\* the normalized direction is unchanged.
C35_MouseLookBranch ==
    AfterTick =>
        /\ polar(Pitched) =>
              /\ player.camera.direction =
                    normalize(rotate_direction(lateral_rot(call.input), DirectionBefore))
              /\ Near(player.camera.direction.y, normalize(DirectionBefore).y)
        /\ ~polar(Pitched) =>
              /\ player.camera.direction =
                    normalize(rotate_direction(lateral_rot(call.input), Pitched))
              /\ Near(player.camera.direction.y, Pitched.y)
        /\ rotate_vector(lateral_rot(call.input), DirectionBefore).y =
              NormSq(lateral_rot(call.input)) * DirectionBefore.y
        /\ rotate_vector(lateral_rot(call.input), Pitched).y =
              NormSq(lateral_rot(call.input)) * Pitched.y
        /\ (call.input.mouse_x = 0 /\ call.input.mouse_y = 0) =>
              /\ Near(player.camera.direction.x, normalize(DirectionBefore).x)
              /\ Near(player.camera.direction.y, normalize(DirectionBefore).y)
              /\ Near(player.camera.direction.z, normalize(DirectionBefore).z)

\* A tick turned the camera sideways by 30 degrees while its pitch was left
\* out: the direction moved, its vertical component did not.
C35_Witness ==
    /\ AfterTick
    /\ call.input.mouse_x = 300 /\ call.input.mouse_y # 0
    /\ polar(Pitched)
    /\ Abs(player.camera.direction.x - normalize(DirectionBefore).x) > 10
    /\ Near(player.camera.direction.y, normalize(DirectionBefore).y)

\* The events a queue's history holds for the message of serial id.
PushedFor(queue, id) == { e \in Range(queue) : e.id = id }

\* wndproc is outside its arms.
HandlerReturned == main_pc \in {"create", "install_input", "spawn_gpu", "spawn_game", "loop"}

\* The queues the arm of a message pushes to.
RoutedToGpu == {"WM_PAINT", "WM_SIZE", "WM_MOUSEMOVE"}
RoutedToInput == {"WM_SIZE", "WM_MOUSEMOVE", "WM_KEYDOWN", "WM_KEYUP"}

\* What the histories may hold: every message at most once per queue, on the
\* queues of its arm only, the simulation side never ahead of the render
\* side, and both sides once the handler has returned.
RoutedHistories ==
    /\ \A e \in Range(pushed.gpu) : e.message \in RoutedToGpu
    /\ \A e \in Range(pushed.input) : e.message \in RoutedToInput
    /\ \A id \in 1..serial :
          /\ Cardinality(PushedFor(pushed.gpu, id)) <= 1
          /\ Cardinality(PushedFor(pushed.input, id)) <= 1
          /\ \A e \in PushedFor(pushed.input, id) :
                e.message \in RoutedToGpu => e \in PushedFor(pushed.gpu, id)
          /\ HandlerReturned =>
                \A e \in PushedFor(pushed.gpu, id) :
                    e.message \in RoutedToInput => e \in PushedFor(pushed.input, id)
    /\ Len(pushed.gpu) = Cardinality(Range(pushed.gpu))
    /\ Len(pushed.input) = Cardinality(Range(pushed.input))

\* A step of wndproc: a push happens with both handles installed and is of
\* the message in hand; an arm that returns has pushed to the queues of its
\* message; an entry that returns at once has pushed nothing.
RoutedStep ==
    /\ pushed' # pushed =>
          /\ installed = 2
          /\ wnd_msg.message \in RoutedToGpu \cup RoutedToInput
          /\ \A e \in (Range(pushed'.gpu) \ Range(pushed.gpu))
                     \cup (Range(pushed'.input) \ Range(pushed.input)) :
                e.message = wnd_msg.message /\ e.id = serial
    /\ (~HandlerReturned /\ HandlerReturned') =>
          /\ (PushedFor(pushed'.gpu, serial) # {}) = (wnd_msg.message \in RoutedToGpu)
          /\ (PushedFor(pushed'.input, serial) # {}) = (wnd_msg.message \in RoutedToInput)
    /\ (serial' # serial /\ HandlerReturned') =>
          /\ pushed' = pushed
          /\ PushedFor(pushed.gpu, serial') = {} /\ PushedFor(pushed.input, serial') = {}
    /\ (serial' # serial /\ installed < 2) => HandlerReturned'

\* C40: once both queue handles are installed, a resize and a mouse-move
\* message are pushed to both queues, render side first, a paint message to
\* the render-side queue only, key-down and key-up messages to the
\* simulation-side queue only, and any other message to none; while a handle
\* is null no message pushes anything.
C40_EventRouting == [](RoutedHistories /\ (installed < 2 => pushed = [gpu |-> <<>>, input |-> <<>>]))
                    /\ [][RoutedStep]_vars

\* A message arrived before the handles were installed and left no event; a
\* resize went to both queues and a key-down to the simulation side only.
C40_Witness ==
    /\ main_pc = "loop" /\ serial = 3
    /\ PushedFor(pushed.gpu, 1) = {} /\ PushedFor(pushed.input, 1) = {}
    /\ \E e \in PushedFor(pushed.gpu, 2) : e.message = "WM_SIZE" /\ e \in Range(pushed.input)
    /\ \E e \in PushedFor(pushed.input, 3) : e.message = "WM_KEYDOWN"
    /\ PushedFor(pushed.gpu, 3) = {}

\* ------------------------------------------------ claims on liveness
\* The render thread is in the loop of try_recv.
InHandoffDrain == gpu_pc \in {"recv", "recv_next"}

\* C37 as stated: under weak fairness of both threads every drain of the
\* channel ends and the iteration reaches the render/wait step.
C37_DrainTerminates == InHandoffDrain ~> (gpu_pc = "frame")

\* C37: a drain of the channel ends whenever the simulation thread stays in
\* its sleep: from every state of a drain met while it sleeps, the drain
\* reaches the render/wait step or the sleep is over.
C37_DrainEndsWhileSimulationSleeps ==
    (InHandoffDrain /\ game_pc = "sleep") ~> (gpu_pc = "frame" \/ game_pc # "sleep")

\* The drain has received a snapshot and finds two more, while the simulation
\* thread sleeps.
C37_Witness ==
    /\ gpu_pc = "recv_next" /\ game_state_res.ok
    /\ Len(chan) = 2
    /\ game_pc = "sleep"

\* The mutex a thread is blocked on, "none" when it is not blocked in lock().
WaitsFor(thread) ==
    CASE thread = "wndproc" /\ main_pc \in WaitsForGpu -> "gpu"
      [] thread = "wndproc" /\ main_pc \in WaitsForInput -> "input"
      [] thread = "game" /\ game_pc = "lock" -> "input"
      [] thread = "gpu" /\ gpu_pc = "lock" -> "gpu"
      [] OTHER -> "none"

\* The holder of a mutex.
HolderOf(mutex) == IF mutex = "gpu" THEN gpu_mutex ELSE input_mutex

Threads == {"wndproc", "game", "gpu"}

\* thread cannot get the mutex it asks for: another holds it.
Blocked(thread) == WaitsFor(thread) # "none" /\ HolderOf(WaitsFor(thread)) # "free"

\* The chain of holders that starts at thread ends, within hops steps, at a
\* thread that is not blocked.
RECURSIVE EndsAtRunnable(_, _)
EndsAtRunnable(thread, hops) ==
    IF ~Blocked(thread) THEN TRUE
    ELSE hops > 0 /\ EndsAtRunnable(HolderOf(WaitsFor(thread)), hops - 1)

\* No set of threads wait for each other: a chain of holders that does not
\* come back on itself passes through every thread at most once.
NoCircularWait ==
    \A t \in Threads : EndsAtRunnable(t, Cardinality(Threads) - 1)

InputPending == input_event_queue # <<>> \/ game_event # NoEvent

\* What a key event of vk does to the level flag of vk.
IsKeyEvent(ev, vk) == IsKeyDown(ev, vk) \/ IsKeyUp(ev, vk)

\* No later event of log is an event of the key vk.
LastOfKey(log, i, vk) ==
    \A j \in (i + 1)..Len(log) : ~IsKeyEvent(log[j].event, vk)

\* No later event of the same drain is an event of the key vk.
LastOfKeyInDrain(log, i, vk) ==
    \A j \in (i + 1)..Len(log) :
        log[j].iteration = log[i].iteration => ~IsKeyEvent(log[j].event, vk)

\* The catch-up loop runs its first tick, which is given input_state.
FirstTickOfIteration == game_pc = "time" /\ game_pc' = "lock" /\ iterations' = 0

\* C39 as stated, for the level flag of VK_UP: the tick that follows a drain
\* sees the effect of every key event which no later event of the same drain
\* overrides.
C39_VisibleUnlessOverriddenInSameDrain ==
    [][FirstTickOfIteration =>
          \A i \in 1..Len(drain_log) :
              (IsKeyEvent(drain_log[i].event, VK_UP) /\ LastOfKeyInDrain(drain_log, i, VK_UP))
                  => input_state.forward = IsKeyDown(drain_log[i].event, VK_UP)]_vars

\* The tick sees the effect of every key event drained since the tick before
\* which no later event drained before it overrides.
VisibleUnlessOverriddenBeforeTick ==
    FirstTickOfIteration =>
        \A i \in 1..Len(drain_log) :
            (IsKeyEvent(drain_log[i].event, VK_UP) /\ LastOfKey(drain_log, i, VK_UP))
                => input_state.forward = IsKeyDown(drain_log[i].event, VK_UP)

\* The drain ends on an empty queue with every popped event interpreted.
DrainLeavesNothing ==
    (game_pc = "check" /\ game_pc' = "time") =>
        (input_event_queue = <<>> /\ game_event = NoEvent)

\* C39: every event pushed to the simulation-side queue is popped and
\* interpreted, by the end of the drain of the first outer iteration that
\* locks the queue after the push; the next tick sees its effect on the level
\* flag unless a later event drained before that tick, in the same drain or
\* in the drain of a later iteration that ran no tick, overrides it.
C39_InputLiveness ==
    /\ InputPending ~> ~InputPending
    /\ [][DrainLeavesNothing /\ VisibleUnlessOverriddenBeforeTick]_vars

\* A tick is about to see the key up although the key-down was the last
\* event of its drain: the key-up came with the drain of the next iteration.
C39_Witness ==
    /\ game_pc = "time" /\ Len(drain_log) = 2
    /\ IsKeyDown(drain_log[1].event, VK_UP) /\ IsKeyUp(drain_log[2].event, VK_UP)
    /\ drain_log[1].iteration # drain_log[2].iteration
    /\ ~input_state.forward
====
